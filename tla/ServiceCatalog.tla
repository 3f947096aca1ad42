--------------------------- MODULE ServiceCatalog ---------------------------
(***************************************************************************)
(* What app/services/service_catalog.py reads of the taxonomy: which       *)
(* services a market shows, under which names, and what is under each.     *)
(* The page of a service and the catalogue of the enquiry form compute     *)
(* this separately.  A region is a row, a resolved service a record.       *)
(***************************************************************************)
EXTENDS Services, Sequences, SequencesExt, FiniteSetsExt

CONSTANTS
  Trimmed,      \* Trimmed[t]: the text without its full stop, "" if nothing is left
  CaseFolded,   \* CaseFolded[t]: what texts that differ in case have in common
  Withheld      \* pairs of a subcategory and a region: the rows with which
                \* subcategory_region_availability says no.  No code writes it.

ASSUME CatalogAssumption ==
  /\ Trimmed \in [Texts -> Texts \cup {""}]
  /\ Texts \subseteq DOMAIN CaseFolded
  /\ Withheld \subseteq SubIds \X RegionIds

-----------------------------------------------------------------------------
PublishedRegions == {region \in regions : region.is_published}

GetRegion(id) == {region \in PublishedRegions : region.id = id}

LiveCategories == {c \in categories : c.is_published /\ ~ c.is_archived}

\* Which markets show each category, for the services hub.
RegionsByCategory ==
  [id \in Ids(LiveCategories) |->
     {region.id : region \in {x \in PublishedRegions :
        \E link \in Cell(id, x.id) : link.is_offered}}]

\* A market's override in place of the name.
Resolved(category, link) ==
  [id |-> category.id,
   name |-> IF link.name_override # None THEN link.name_override ELSE category.name]

ServicesForRegion(region) ==
  {Resolved(pair[1], pair[2]) :
     pair \in {shown \in LiveCategories \X availability :
       /\ shown[2].category_id = shown[1].id
       /\ shown[2].region_id = region.id
       /\ shown[2].is_offered}}

\* Empty also where the service exists but the market does not offer it.
ServiceInRegion(region, id) == {service \in ServicesForRegion(region) : service.id = id}

\* A row of homepage teasers: a market's services, or all without a market.
ServiceTeasers(id) ==
  IF GetRegion(id) # {}
  THEN UNION {ServicesForRegion(region) : region \in GetRegion(id)}
  ELSE {[id |-> c.id, name |-> c.name] : c \in LiveCategories}

OtherRegionsOffering(id, region) ==
  {other \in PublishedRegions \ {region} : \E link \in Cell(id, other.id) : link.is_offered}

-----------------------------------------------------------------------------
(* What is under a service. *)

InOrder(rows) == SetToSortSeq(rows, LAMBDA a, b : a.id < b.id)

DetailBullets(id) ==
  LET rows == InOrder({row \in details : row.category_id = id})
  IN [i \in DOMAIN rows |-> rows[i].text]

\* Published, not archived, and not withheld from the market.
SubcategoriesForRegion(id, region) ==
  LET rows == InOrder({row \in subcategories :
                /\ row.category_id = id /\ row.is_published /\ ~ row.is_archived
                /\ <<row.id, region.id>> \notin Withheld})
  IN [i \in DOMAIN rows |-> rows[i].name]

\* One list of the two, in which an entry that differs from an earlier one only
\* in case, or in its full stop, is left out.
MergeSubServices(names, texts) ==
  FoldLeft(LAMBDA merged, t :
             IF Trimmed[t] = "" \/ \E m \in Range(merged) : CaseFolded[m] = CaseFolded[Trimmed[t]]
             THEN merged
             ELSE Append(merged, Trimmed[t]),
           <<>>, names \o texts)

\* region_service_detail: the page of a service in a market, where it is found.
ServicePage(region, id) ==
  {[country |-> region.name, service |-> service.name,
    subs |-> Range(MergeSubServices(SubcategoriesForRegion(id, region), DetailBullets(id))),
    elsewhere |-> OtherRegionsOffering(id, region)] :
   service \in ServiceInRegion(region, id)}

-----------------------------------------------------------------------------
(* The catalogue of the enquiry form, which is built in one pass. *)

\* Deviation: the name of the category, whatever the market calls it.
EnquiryCatalogueUnresolved ==
  {[country |-> region.name,
    services |->
      {[name |-> (CHOOSE c \in categories : c.id = link.category_id).name,
        subs |-> Range(MergeSubServices(SubcategoriesForRegion(link.category_id, region),
                                        DetailBullets(link.category_id)))] :
       link \in {x \in availability : /\ x.is_offered /\ x.region_id = region.id
                                      /\ x.category_id \in Ids(LiveCategories)}}] :
   region \in PublishedRegions}

\* The options under a service are qualified by the name of the service; here
\* they are kept with it.
EnquiryCatalogue ==
  LET links == {link \in availability : link.is_offered /\ link.category_id \in Ids(LiveCategories)}
      category(link) == CHOOSE c \in categories : c.id = link.category_id
      offered(link) ==
        LET rows == InOrder({row \in subcategories :
                      /\ row.is_published /\ ~ row.is_archived
                      /\ row.category_id = link.category_id
                      /\ <<row.id, link.region_id>> \notin Withheld})
        IN [i \in DOMAIN rows |-> rows[i].name]
  IN {[country |-> region.name,
       services |->
         {[name |-> Resolved(category(link), link).name,
           subs |-> Range(MergeSubServices(offered(link), DetailBullets(link.category_id)))] :
          link \in {x \in links : x.region_id = region.id}}] :
      region \in PublishedRegions}
=============================================================================
