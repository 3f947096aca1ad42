\* Two overlapping requests.  Services: one task, a subcategory and a detail,
\* two categories in two markets, engagements for one.  Enquiries: one visitor, two edits of
\* the taxonomy or the form, before or after the page is opened.  Content: three
\* releases, two edits.  Onboarding: two steps, two questions.  Rate limit: a
\* window of two ticks and up to five requests by two processes.
CONSTANTS
  Requests = {r1, r2}
  None = None
  RegionIds = {"uk", "in"}
  CategoryIds = {"c1", "c2"}
  SubIds = {1}
  DetailIds = {1}
  TaskIds = {t1}
  ServedClients = {k1}
  Countries = {"UK", "India"}
  ServiceNames = {"VAT", "GST"}
  Texts = {"returns", "Returns", "Returns."}
  SeededRegions <- MCRegions
  SeededCategories <- MCCategories
  SeededSubcategories <- MCSubcategories
  SeededDetails <- MCDetails
  SeededAvailability <- MCAvailability
  MaxEdits = 2
  MaxServiceEdits = 1
  Engageable = {"c1"}
  Renamable = {"service_required"}
  ClosableSteps = {2}
  Trimmed <- MCTrimmed
  CaseFolded <- MCCaseFolded
  Withheld <- MCWithheld
  Visitors = {v1}
  OtherFields = {"company"}
  SeededFields <- MCFields
  FieldEdits <- MCFieldEdits
  MaxEnquiries = 1
  Steps = {1, 2}
  QuestionKeys = {"k1", "k2"}
  SeededQuestions <- MCQuestions
  Submissions <- MCSubmissions
  MaxQuestions = 2
  ContentKeys = {"hero", "topic", "subject", "office"}
  UniqueKeys = {"hero", "topic", "subject"}
  FixedKeys = {"hero"}
  Wordings = {"old", "new", "awaiting"}
  Releases <- MCReleases
  MaxRows = 5
  MaxRewordings = 2
  Processes = {p1, p2}
  Window = 2
  MaxCount = 5
SPECIFICATION MCSpec
SYMMETRY Symmetry
INVARIANTS
  TypesOK
  CompletionAnswered
  HistoryKept
  OfferedIsAccepted
  EditsSurvive
  WindowHonoured
CHECK_DEADLOCK FALSE
