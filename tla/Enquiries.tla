----------------------------- MODULE Enquiries ------------------------------
(***************************************************************************)
(* The enquiry form, whose fields are rows that administrators edit, and   *)
(* visitors who fill it in from the page of a service:                     *)
(* app/services/enquiry_service.py with the public and the admin routes.   *)
(*                                                                         *)
(* An answer is the set of its entries, {} if it is left blank; a specific *)
(* service is a pair of the service and what is under it.                  *)
(***************************************************************************)
EXTENDS ServiceCatalog, Functions

CONSTANTS
  Visitors,
  OtherFields,      \* keys of fields that the code does not know by name
  SeededFields,     \* the rows of the form, by key, that seeding leaves
  FieldEdits,       \* pairs of a key and a row that editors may save
  MaxEnquiries      \* bound on the enquiries stored

COUNTRY_FIELD == "country"
SERVICE_FIELD == "service_required"
SUB_SERVICE_FIELD == "sub_services"

FieldKeys == {COUNTRY_FIELD, SERVICE_FIELD, SUB_SERVICE_FIELD} \cup OtherFields

VARIABLES
  fields,      \* fields[key]: the row with that key, for the keys in use
  visitors,    \* visitors[v]: the page that v opened, the answers, what became of
               \* them, and whether they were still offered when v sent them
  enquiries    \* the enquiries stored, oldest first

enquiriesVars == <<servicesVars, fields, visitors, enquiries>>

-----------------------------------------------------------------------------
\* options: what is stored, None if the list is empty.
Field == [is_active: BOOLEAN, is_required: BOOLEAN,
          options: {None} \cup SUBSET (Countries \cup ServiceNames)]

ASSUME FormAssumption ==
  /\ DOMAIN SeededFields \subseteq FieldKeys
  /\ \A key \in DOMAIN SeededFields : SeededFields[key] \in Field
  /\ FieldEdits \subseteq FieldKeys \X Field
  /\ MaxEnquiries \in Nat

ActiveFields == {key \in DOMAIN fields : fields[key].is_active}

CountryOptions == {region.name : region \in PublishedRegions} \cup {"Other"}

\* The markets of a country; all of them without a country, or if there is none.
Markets(country) ==
  LET own == {market \in EnquiryCatalogue : market.country \in country}
  IN IF own = {} THEN EnquiryCatalogue ELSE own

ServiceOptions(country) ==
  {service.name : service \in UNION {market.services : market \in Markets(country)}}

SubServiceOptions(country, wanted) ==
  UNION {{service.name} \X service.subs :
         service \in {s \in UNION {market.services : market \in Markets(country)} :
                        wanted = {} \/ s.name \in wanted}}

\* describe_form: the fields that are shown, whether they must be filled in, and
\* the choices; None where anything goes, or the browser narrows the catalogue.
DescribeForm ==
  [key \in ActiveFields |->
     [is_required |-> fields[key].is_required,
      options |-> IF fields[key].options # None THEN fields[key].options
                  ELSE CASE key = SERVICE_FIELD -> ServiceOptions({})
                         [] key = COUNTRY_FIELD -> CountryOptions
                         [] OTHER -> None]]

EnquiriesInit ==
  /\ ServicesInit
  /\ fields = SeededFields
  /\ visitors = [v \in Visitors |-> None]
  /\ enquiries = <<>>

-----------------------------------------------------------------------------
(* validate_and_clean. *)

\* Fields that are not shown any more, and those left blank, are left out.
Cleaned(answers) == Restrict(answers, {key \in ActiveFields : answers[key] # {}})

Given(cleaned, key) == IF key \in DOMAIN cleaned THEN cleaned[key] ELSE {}

\* _check_against_catalogue, which takes anything where there is no choice.
CheckedAgainstCatalogue(cleaned) ==
  LET country == Given(cleaned, COUNTRY_FIELD)
      chosen == Given(cleaned, SERVICE_FIELD)
      subs == Given(cleaned, SUB_SERVICE_FIELD)
      validServices == ServiceOptions(country)
      validSubs == SubServiceOptions(country, chosen)
  IN /\ validServices = {} \/ chosen \subseteq validServices
     /\ validSubs = {} \/ subs \subseteq validSubs

\* A stored choice binds, except what is sent as plain text for the service or for
\* what is under it, which the catalogue alone decides.
Valid(answers, plain) ==
  LET cleaned == Cleaned(answers)
  IN /\ \A key \in ActiveFields : fields[key].is_required => key \in DOMAIN cleaned
     /\ \A key \in DOMAIN cleaned \ plain :
          fields[key].options # None => cleaned[key] \subseteq fields[key].options
     /\ CheckedAgainstCatalogue(cleaned)

-----------------------------------------------------------------------------
(* The visitors. *)

\* What the page of a service puts into an enquiry, and the form lets one send.
Offers(page, shown, answers) ==
  /\ answers[COUNTRY_FIELD] \subseteq {page.country}
  /\ answers[SERVICE_FIELD] \subseteq {page.service}
  /\ answers[SUB_SERVICE_FIELD] \subseteq {page.service} \X page.subs
  /\ \A key \in DOMAIN shown :
       /\ shown[key].is_required => answers[key] # {}
       /\ shown[key].options # None => answers[key] \subseteq shown[key].options

StillOffered(visitor) ==
  \E region \in GetRegion(visitor.region) :
    \E page \in ServicePage(region, visitor.service) : Offers(page, DescribeForm, visitor.answers)

\* What can be sent from a page: any part of what it puts in, and any or none of
\* the other answers, as far as the form shows their fields.
Answers(page, shown) ==
  LET part(key, entries) == IF key \in DOMAIN shown THEN SUBSET entries ELSE {{}}
  IN {answers \in
        {[key \in FieldKeys |-> CASE key = COUNTRY_FIELD -> country
                                  [] key = SERVICE_FIELD -> chosen
                                  [] key = SUB_SERVICE_FIELD -> subs
                                  [] OTHER -> IF key \in others THEN {"given"} ELSE {}] :
         country \in part(COUNTRY_FIELD, {page.country}),
         chosen \in part(SERVICE_FIELD, {page.service}),
         subs \in part(SUB_SERVICE_FIELD, {page.service} \X page.subs),
         others \in SUBSET (OtherFields \cap DOMAIN shown)} :
      Offers(page, shown, answers)}

OpenPage(v, region, service) ==
  /\ visitors[v] = None
  /\ LET shown == DescribeForm IN
       \E page \in ServicePage(region, service) : \E answers \in Answers(page, shown) :
         visitors' = [visitors EXCEPT ![v] =
           [region |-> region.id, service |-> service, answers |-> answers,
            outcome |-> None, offered |-> FALSE]]
  /\ UNCHANGED <<servicesVars, fields, enquiries>>

CreateEnquiry(answers) ==
  Append(enquiries, [payload |-> Cleaned(answers), is_handled |-> FALSE])

\* A list is sent, or plain text if the field takes one answer.
SentPlain(answers) ==
  SUBSET {key \in {SERVICE_FIELD, SUB_SERVICE_FIELD} : Cardinality(answers[key]) = 1}

\* submit_enquiry; the rate limit may turn it down before it is looked at.
Submit(v, outcome) ==
  /\ visitors[v] # None /\ visitors[v].outcome = None
  /\ outcome = "stored" => Len(enquiries) < MaxEnquiries
  /\ LET answers == visitors[v].answers IN
       /\ outcome = "stored" => \E plain \in SentPlain(answers) : Valid(answers, plain)
       /\ outcome = "refused" => \E plain \in SentPlain(answers) : ~ Valid(answers, plain)
  /\ visitors' = [visitors EXCEPT ![v].outcome = outcome,
                                  ![v].offered = StillOffered(visitors[v])]
  /\ enquiries' = IF outcome = "stored" THEN CreateEnquiry(visitors[v].answers) ELSE enquiries
  /\ UNCHANGED <<servicesVars, fields>>

-----------------------------------------------------------------------------
(* The administrators. *)

UpdateEnquiry(i, handled) ==
  /\ enquiries[i].is_handled # handled
  /\ enquiries' = [enquiries EXCEPT ![i].is_handled = handled]
  /\ UNCHANGED <<servicesVars, fields, visitors>>

FieldsEdited ==
  /\ Edited
  /\ UNCHANGED <<taxonomyVars, tasks, clientServices, handling, dropped, filed, visitors, enquiries>>

CreateField(key, row) ==
  /\ FieldsEdited /\ key \notin DOMAIN fields
  /\ fields' = [k \in DOMAIN fields \cup {key} |-> IF k = key THEN row ELSE fields[k]]

\* The row, its key included, as long as no other field has that one.
UpdateField(key, newKey, row) ==
  /\ FieldsEdited
  /\ newKey = key \/ newKey \notin DOMAIN fields
  /\ fields' = [k \in (DOMAIN fields \ {key}) \cup {newKey} |-> IF k = newKey THEN row ELSE fields[k]]
  /\ fields' # fields

DeactivateField(key) ==
  /\ FieldsEdited /\ fields[key].is_active
  /\ fields' = [fields EXCEPT ![key].is_active = FALSE]

EnquiriesNext ==
  \/ TaxonomyNext /\ UNCHANGED <<fields, visitors, enquiries>>
  \/ \E v \in Visitors :
       \/ \E region \in PublishedRegions, service \in CategoryIds : OpenPage(v, region, service)
       \/ \E outcome \in {"stored", "refused", "throttled"} : Submit(v, outcome)
  \/ \E i \in DOMAIN enquiries, handled \in BOOLEAN : UpdateEnquiry(i, handled)
  \/ \E edit \in FieldEdits : CreateField(edit[1], edit[2])
  \/ \E key \in DOMAIN fields :
       \/ \E edit \in FieldEdits : UpdateField(key, edit[1], edit[2])
       \/ \E newKey \in FieldKeys : UpdateField(key, newKey, fields[key])
       \/ DeactivateField(key)

EnquiriesSpec == EnquiriesInit /\ [][EnquiriesNext]_enquiriesVars

-----------------------------------------------------------------------------
(***************************************************************************)
(* Properties                                                              *)
(***************************************************************************)

\* The fields and the visitors keep their shape; only fields that were shown
\* then are in an enquiry, and none of them blank.
EnquiriesTypeOK ==
  /\ DOMAIN fields \subseteq FieldKeys
  /\ \A key \in DOMAIN fields : fields[key] \in Field
  /\ \A v \in Visitors : visitors[v] # None =>
       /\ visitors[v].region \in RegionIds /\ visitors[v].service \in CategoryIds
       /\ DOMAIN visitors[v].answers = FieldKeys
       /\ visitors[v].outcome \in {None, "stored", "refused", "throttled"}
  /\ Len(enquiries) <= MaxEnquiries
  /\ \A i \in DOMAIN enquiries : {} \notin Range(enquiries[i].payload)

\* "An Enquire link only lands on a valid option": what the page of a service
\* and the form of this moment offer is never refused - by whatever name the
\* market goes and calls the service, whatever was edited since the page was
\* opened, and with answers to fields that have been retired since.
OfferedIsAccepted ==
  \A v \in Visitors :
    visitors[v] # None /\ visitors[v].outcome = "refused" => ~ visitors[v].offered

\* What keeps it so: no two categories have the same id, so that the page and the
\* catalogue read the same one; and a visitor keeps what the page was opened with.
VisitorsShaped ==
  /\ DOMAIN visitors = Visitors
  /\ \A v \in Visitors : visitors[v] # None =>
       visitors[v] = [region |-> visitors[v].region, service |-> visitors[v].service,
                      answers |-> visitors[v].answers, outcome |-> visitors[v].outcome,
                      offered |-> visitors[v].offered]

EnquiriesInvariant == OneEach(categories) /\ VisitorsShaped /\ OfferedIsAccepted

\* Beside the types: what is stored of an enquiry is what was sent, and handled or not.
EnquiriesStored ==
  /\ enquiries \in Seq(Range(enquiries))
  /\ \A i \in DOMAIN enquiries :
       enquiries[i] = [payload |-> enquiries[i].payload, is_handled |-> enquiries[i].is_handled]

EnquiriesTypeInvariant == ServicesTypeOK /\ EnquiriesTypeOK /\ VisitorsShaped /\ EnquiriesStored
=============================================================================
