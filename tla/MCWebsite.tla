----------------------------- MODULE MCWebsite ------------------------------
(***************************************************************************)
(* The website and what editors put on it - services, enquiries, content   *)
(* and the onboarding wizard - and the rate limiter, on small instances.   *)
(* A behaviour is one of the component in focus; services and enquiries    *)
(* share the taxonomy, and the others no variable.                         *)
(***************************************************************************)
EXTENDS Enquiries, Onboarding, Content, RateLimit, TLC

CONSTANTS
  MaxServiceEdits,  \* bound on the edits of the taxonomy with services in focus
  Engageable,       \* bound: the services that a client is engaged for
  Renamable,        \* bound: the form fields that are given another key
  ClosableSteps     \* bound: the wizard steps that are switched off

VARIABLE focus

mcVars == <<focus, enquiriesVars, onboardingVars, contentVars, rateLimitVars>>

-----------------------------------------------------------------------------
(* Two markets, of which one calls a service by the name of another; an item *)
(* under a service is entered twice.                                         *)

MCRegions ==
  {[id |-> "uk", name |-> "UK", is_published |-> TRUE],
   [id |-> "in", name |-> "India", is_published |-> TRUE]}

MCCategories ==
  {[id |-> "c1", name |-> "VAT", is_published |-> TRUE, is_archived |-> FALSE],
   [id |-> "c2", name |-> "GST", is_published |-> TRUE, is_archived |-> FALSE]}

MCSubcategories ==
  {[id |-> 1, category_id |-> "c1", name |-> "returns", is_published |-> TRUE, is_archived |-> FALSE]}

MCDetails == {[id |-> 1, category_id |-> "c1", text |-> "Returns."]}

MCAvailability ==
  {[category_id |-> "c1", region_id |-> "uk", is_offered |-> TRUE, name_override |-> None],
   [category_id |-> "c1", region_id |-> "in", is_offered |-> TRUE, name_override |-> "GST"]}

MCTrimmed == [t \in Texts |-> IF t = "Returns." THEN "Returns" ELSE t]
MCCaseFolded == [t \in Texts |-> IF t = "Returns" THEN "returns" ELSE t]
MCWithheld == {<<1, "in">>}

(* The three fields that the code knows, of which editors may require one or *)
(* store choices for it, and one that they may add.                          *)

MCField(required, options) ==
  [is_active |-> TRUE, is_required |-> required, options |-> options]

MCFields == [key \in FieldKeys \ OtherFields |-> MCField(FALSE, None)]

MCFieldEdits ==
  {<<"company", MCField(TRUE, None)>>, <<"country", MCField(TRUE, {"UK"})>>,
   <<"service_required", MCField(TRUE, {"VAT"})>>}

(* A heading that two later releases reword, a contact that the first of     *)
(* them fills in and publishes, and a form field that it adds - and that    *)
(* an editor may give another key.                                           *)

MCContent(value, detail, published) ==
  [value |-> value, detail |-> detail, is_published |-> published]

MCReleases ==
  <<[seeds |-> [hero |-> MCContent("old", None, TRUE),
                office |-> MCContent("awaiting", None, FALSE)],
     inserts |-> <<>>, changes |-> <<>>],
    [seeds |-> [hero |-> MCContent("new", "old", TRUE), office |-> MCContent("new", None, TRUE),
                topic |-> MCContent("new", None, TRUE)],
     inserts |-> [topic |-> MCContent("new", None, TRUE)],
     changes |-> <<[key |-> "hero", guard |-> "value", old |-> "old",
                    new |-> [value |-> "new", detail |-> "old"]],
                   [key |-> "office", guard |-> "value", old |-> "awaiting",
                    new |-> [value |-> "new", is_published |-> TRUE]]>>],
    [seeds |-> [hero |-> MCContent("awaiting", "old", TRUE)], inserts |-> <<>>,
     changes |-> <<[key |-> "hero", guard |-> "value", old |-> "new",
                    new |-> [value |-> "awaiting"]]>>]>>

(* One seeded question.  A client leaves all out, one blank, or answers both.  *)

MCQuestions == <<<<1, "k1">>>>

MCSubmissions ==
  {<<>>, [k1 |-> "blank"], [k1 |-> "given", k2 |-> "given"]}

Symmetry == Permutations(Requests) \cup Permutations(Processes)

-----------------------------------------------------------------------------
EngagedOnlyForBound ==
  \A r \in Requests :
    handling'[r] # None /\ handling'[r].op = "engage" => handling'[r].wanted \subseteq Engageable

\* With enquiries in focus ticks race each other, but a visitor, who reads what is
\* committed, does nothing inside one; and when every visitor has sent the form
\* nothing is edited any more.
EditsMeetVisitors ==
  /\ visitors' # visitors => \A r \in Requests : handling[r] = None
  /\ edits' # edits => ~ \A v \in Visitors : visitors[v] # None /\ visitors[v].outcome # None

MCInit ==
  /\ focus \in {"services", "enquiries", "onboarding", "content", "rate limit"}
  /\ EnquiriesInit
  /\ OnboardingInit
  /\ ContentInit
  /\ RateLimitInit

MCNext ==
  /\ UNCHANGED focus
  /\ \/ /\ focus = "services"
        /\ ServicesNext /\ edits' <= MaxServiceEdits /\ EngagedOnlyForBound
        /\ UNCHANGED <<fields, visitors, enquiries, onboardingVars, contentVars, rateLimitVars>>
     \/ /\ focus = "enquiries"
        /\ EnquiriesNext /\ DOMAIN MCFields \ DOMAIN fields' \subseteq Renamable
        /\ EditsMeetVisitors
        /\ UNCHANGED <<onboardingVars, contentVars, rateLimitVars>>
     \/ /\ focus = "onboarding"
        /\ OnboardingNext /\ closed' \subseteq ClosableSteps
        /\ UNCHANGED <<enquiriesVars, contentVars, rateLimitVars>>
     \/ /\ focus = "content"
        /\ ContentNext
        /\ UNCHANGED <<enquiriesVars, onboardingVars, rateLimitVars>>
     \/ /\ focus = "rate limit"
        /\ RateLimitNext
        /\ UNCHANGED <<enquiriesVars, onboardingVars, contentVars>>

MCSpec == MCInit /\ [][MCNext]_mcVars

\* The variables of each component keep their shape.
TypesOK ==
  /\ focus \in {"services", "enquiries"} => ServicesTypeOK /\ EnquiriesTypeOK
  /\ focus = "onboarding" => OnboardingTypeOK
  /\ focus = "content" => ContentTypeOK
  /\ focus = "rate limit" => RateLimitTypeOK
=============================================================================
