---------------------------- MODULE SchemasSection ----------------------------
(***************************************************************************)
(* The schemas tab of the workspace: accordions over the cached list of    *)
(* schemas, and the upload that invalidates it.                            *)
(***************************************************************************)
EXTENDS Naturals

CONSTANTS Families,
          MaxUploads,          \* bound: uploads
          UpIdle, UpAsked, NoSchemas

ASSUME SchemasAssumption ==
  /\ MaxUploads \in Nat /\ UpIdle # UpAsked
  /\ \A x \in {UpIdle, UpAsked, NoSchemas} : x \notin Families /\ \A s \in SUBSET Families : x # s

VARIABLES
  wsSchemas,           \* families the server has schemas of
  schemaQuery,         \* [data, get]: the cache; UpIdle, UpAsked or the answer on its way
  uploadMut,           \* UpIdle, the family being uploaded, or UpAsked when stored
  uploaded,            \* the family of the upload that is unanswered
  schemaTab, opened, initialised,  \* the section is mounted; its accordions
  uploads,
  due                  \* history: families uploaded onto a landed list, not touched since

upVars == <<wsSchemas, schemaQuery, uploadMut, uploaded, schemaTab, opened, initialised, uploads, due>>

\* A query with data starts over when it is invalidated; without data the request
\* under way is joined.
Restarted(q) ==
  IF q.get = UpIdle \/ q.data # NoSchemas THEN [q EXCEPT !.get = UpAsked] ELSE q

UpInit ==
  /\ wsSchemas \in SUBSET Families /\ schemaQuery = [data |-> NoSchemas, get |-> UpIdle]
  /\ uploadMut = UpIdle /\ uploaded = NoSchemas /\ uploads = 0
  /\ schemaTab = FALSE /\ opened = {} /\ initialised = FALSE /\ due = {}

\* The tab mounts the section: its accordions start from the list it has, if any.
OpenSchemas ==
  /\ ~schemaTab /\ schemaTab' = TRUE
  /\ initialised' = (schemaQuery.data # NoSchemas)
  /\ opened' = IF schemaQuery.data # NoSchemas THEN schemaQuery.data ELSE {}
  /\ schemaQuery' \in {schemaQuery} \cup (IF schemaQuery.get = UpIdle THEN {Restarted(schemaQuery)} ELSE {})
  /\ schemaQuery.data = NoSchemas => schemaQuery'.get # UpIdle
  /\ due' = {} /\ UNCHANGED <<wsSchemas, uploadMut, uploaded, uploads>>

LeaveSchemas ==
  /\ schemaTab /\ schemaTab' = FALSE /\ opened' = {} /\ initialised' = FALSE /\ due' = {}
  /\ UNCHANGED <<wsSchemas, schemaQuery, uploadMut, uploaded, uploads>>

ServeSchemas ==
  /\ schemaQuery.get = UpAsked /\ schemaQuery' = [schemaQuery EXCEPT !.get = wsSchemas]
  /\ UNCHANGED <<wsSchemas, uploadMut, uploaded, schemaTab, opened, initialised, due, uploads>>

\* The first list to land expands its families, over what an upload opened.
LandSchemas ==
  /\ schemaQuery.get \notin {UpIdle, UpAsked}
  /\ schemaQuery' = [data |-> schemaQuery.get, get |-> UpIdle]
  /\ IF schemaTab /\ ~initialised THEN initialised' = TRUE /\ opened' = schemaQuery.get
     ELSE UNCHANGED <<initialised, opened>>
  /\ UNCHANGED <<wsSchemas, uploadMut, uploaded, schemaTab, due, uploads>>

ToggleFamily ==
  /\ schemaTab /\ schemaQuery.data # NoSchemas
  /\ \E f \in schemaQuery.data :
       /\ opened' = IF f \in opened THEN opened \ {f} ELSE opened \cup {f}
       /\ due' = due \ {f}
  /\ UNCHANGED <<wsSchemas, schemaQuery, uploadMut, uploaded, schemaTab, initialised, uploads>>

PickFile ==
  /\ schemaTab /\ uploadMut = UpIdle /\ uploads < MaxUploads /\ uploads' = uploads + 1
  /\ uploadMut' \in Families /\ uploaded' = uploadMut'
  /\ UNCHANGED <<wsSchemas, schemaQuery, schemaTab, opened, initialised, due>>

StoreSchema ==
  /\ uploadMut \in Families /\ uploadMut' = UpAsked /\ wsSchemas' = wsSchemas \cup {uploadMut}
  /\ UNCHANGED <<schemaQuery, uploaded, schemaTab, opened, initialised, due, uploads>>

\* onSuccess: the family is opened, the list invalidated; on an unmounted section
\* only the second.
UploadAnswered ==
  /\ uploadMut = UpAsked /\ uploadMut' = UpIdle /\ uploaded' = NoSchemas
  /\ schemaQuery' = Restarted(schemaQuery)
  /\ opened' = IF schemaTab THEN opened \cup {uploaded} ELSE opened
  /\ due' = IF schemaTab /\ initialised THEN due \cup {uploaded} ELSE due
  /\ UNCHANGED <<wsSchemas, schemaTab, initialised, uploads>>

UploadFails ==
  /\ uploadMut # UpIdle /\ uploadMut' = UpIdle /\ uploaded' = NoSchemas
  /\ UNCHANGED <<wsSchemas, schemaQuery, schemaTab, opened, initialised, due, uploads>>

UpNext ==
  \/ OpenSchemas \/ LeaveSchemas \/ ServeSchemas \/ LandSchemas \/ ToggleFamily
  \/ PickFile \/ StoreSchema \/ UploadAnswered \/ UploadFails
UpSpec == UpInit /\ [][UpNext]_upVars

-----------------------------------------------------------------------------
UpFlagsOK == schemaTab \in BOOLEAN /\ initialised \in BOOLEAN

UpTypeOK ==
  /\ wsSchemas \subseteq Families /\ opened \subseteq Families /\ due \subseteq Families
  /\ schemaQuery \in [data : (SUBSET Families) \cup {NoSchemas},
                       get : (SUBSET Families) \cup {UpIdle, UpAsked}]
  /\ uploadMut \in Families \cup {UpIdle, UpAsked} /\ uploaded \in Families \cup {NoSchemas}
  /\ UpFlagsOK /\ uploads \in 0 .. MaxUploads

\* "Ensure that accordion is open so the freshly uploaded row is visible": a family
\* uploaded onto a landed list is open, and once the list is quiet it is listed.
UploadedIsVisible ==
  /\ due \subseteq opened
  /\ schemaQuery.get = UpIdle => due \subseteq schemaQuery.data
=============================================================================
