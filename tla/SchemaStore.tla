------------------------------ MODULE SchemaStore ------------------------------
(***************************************************************************)
(* The directory of ISO 20022 schemas of the backend, the registry read    *)
(* from it and the reference derived from the registry, under uploads,     *)
(* crashes and restarts.  An upload is one call of UploadSchema with a     *)
(* file that parses and compiles; any other is answered before it touches  *)
(* anything.  Each of its accesses to the directory or to a map is a step. *)
(*                                                                         *)
(* A file is an inode, named by the upload that created it: a rename moves *)
(* it while another upload may still hold it open for writing.             *)
(***************************************************************************)
EXTENDS Naturals, FiniteSets

CONSTANTS
  Uploads,      \* the uploads that may be made
  Namespaces,   \* target namespaces
  Paths,        \* where a file may be stored: family directory and file name
  Requests,     \* the pairs of a path and a namespace that an upload may have
  Shipped,      \* the files that the backend is shipped with, by path: their namespaces
  MaxCrashes

ASSUME RequestsAssumption == Requests \subseteq Paths \X Namespaces
ASSUME ShippedAssumption ==
  /\ DOMAIN Shipped \subseteq Paths /\ \A p \in DOMAIN Shipped : Shipped[p] \in Namespaces
  /\ \A p, q \in DOMAIN Shipped : Shipped[p] = Shipped[q] => p = q
  /\ Uploads \cap Paths = {}

VARIABLES
  up,         \* the backend runs
  disk,       \* path -> inode of the .xsd there
  tmp,        \* path -> inode of the .xsd.tmp there
  content,    \* inode -> namespace, the upload or shipped path its bytes are of, whole or not
  registry,   \* _byNamespace: namespace -> whose bytes
  reference,  \* _fieldsByType and _namespaceByType: namespace -> whose bytes
  pc,         \* where an upload is
  request,    \* its path and namespace
  unread,     \* what its directory scan, or its walk over the registry, has still to visit
  got,        \* the map it is building
  handle,     \* the path of the file it deletes, then the inode it writes
  crashes,
  promised    \* answered uploads of whose path and namespace no upload has begun since

files    == <<disk, tmp, content>>
maps     == <<registry, reference>>
locals   == <<request, unread, got, handle>>
storeVars == <<up, files, maps, pc, locals, crashes, promised>>

Inodes == Uploads \cup Paths
Path(u) == request[u][1]
Ns(u)   == request[u][2]

InFlight(u) == pc[u] \notin {"new", "done", "failed", "lost"}
Quiet == \A u \in Uploads : ~InFlight(u)

\* File.OpenRead asks for a shared lock, which an open writer refuses; what is there of
\* a file that was being written is no schema.
Locked(i)   == \E u \in Uploads : pc[u] = "writing" /\ handle[u] = i
Readable(p) == p \in DOMAIN disk /\ ~Locked(disk[p]) /\ content[disk[p]].whole

Without(f, x) == [y \in DOMAIN f \ {x} |-> f[y]]
With(f, x, v) == [y \in DOMAIN f \cup {x} |-> IF y = x THEN v ELSE f[y]]

\* The map that a scan of the directory at rest gives.
Scanned == [n \in {content[disk[p]].ns : p \in DOMAIN disk} |->
              content[disk[CHOOSE p \in DOMAIN disk : content[disk[p]].ns = n]].of]

-----------------------------------------------------------------------------
StoreInit ==
  /\ up = TRUE /\ disk = [p \in DOMAIN Shipped |-> p] /\ tmp = <<>>
  /\ content = [p \in DOMAIN Shipped |-> [ns |-> Shipped[p], of |-> p, whole |-> TRUE]]
  /\ registry = Scanned /\ reference = registry
  /\ pc = [u \in Uploads |-> "new"] /\ request \in [Uploads -> Requests]
  /\ unread = [u \in Uploads |-> {}] /\ got = [u \in Uploads |-> <<>>]
  /\ handle = [u \in Uploads |-> u] /\ crashes = 0 /\ promised = {}

Go(u, label) == up /\ pc' = [pc EXCEPT ![u] = label]

\* Validation passed: RemoveExistingWithNamespace lists every file.
BeginUpload(u) ==
  /\ pc[u] = "new" /\ Go(u, "scan")
  /\ unread' = [unread EXCEPT ![u] = DOMAIN disk]
  /\ promised' = {v \in promised : Path(v) # Path(u) /\ Ns(v) # Ns(u)}
  /\ UNCHANGED <<up, files, maps, request, got, handle, crashes>>

\* Mutant of ReadNamespace: a file stored under another name is unread.
ReadNamespaceOnly(u) ==
  /\ pc[u] = "scan" /\ Go(u, "scan")
  /\ \E p \in unread[u] : unread' = [unread EXCEPT ![u] = @ \ {p}]
  /\ UNCHANGED <<up, files, maps, request, got, handle, crashes, promised>>

\* A listed file is opened and read; one that is gone, held or corrupt is skipped.
ReadNamespace(u) ==
  /\ pc[u] = "scan"
  /\ \E p \in unread[u] :
       IF Readable(p) /\ content[disk[p]].ns = Ns(u)
         THEN Go(u, "delete") /\ handle' = [handle EXCEPT ![u] = p] /\ UNCHANGED unread
         ELSE Go(u, "scan") /\ unread' = [unread EXCEPT ![u] = @ \ {p}] /\ UNCHANGED handle
  /\ UNCHANGED <<up, files, maps, request, got, crashes, promised>>

\* File.Delete, of whatever is at the path by now, if anything.
DeleteOld(u) ==
  /\ pc[u] = "delete" /\ Go(u, "scan")
  /\ disk' = Without(disk, handle[u]) /\ unread' = [unread EXCEPT ![u] = @ \ {handle[u]}]
  /\ UNCHANGED <<up, tmp, content, maps, request, got, handle, crashes, promised>>

\* Mutant of OpenTmp: the bytes are written to the target itself.
OpenTarget(u) ==
  /\ pc[u] = "scan" /\ unread[u] = {} /\ Go(u, "writing")
  /\ handle' = [handle EXCEPT ![u] = u] /\ disk' = With(disk, Path(u), u)
  /\ content' = With(content, u, [ns |-> Ns(u), of |-> u, whole |-> FALSE])
  /\ UNCHANGED <<up, tmp, maps, request, unread, got, crashes, promised>>

\* File.WriteAllBytes creates or truncates the .tmp, unless another upload holds it open.
OpenTmp(u) ==
  /\ pc[u] = "scan" /\ unread[u] = {}
  /\ LET i == IF Path(u) \in DOMAIN tmp THEN tmp[Path(u)] ELSE u
     IN  IF Locked(i) THEN Go(u, "failed") /\ UNCHANGED <<tmp, content, handle>>
         ELSE /\ Go(u, "writing") /\ handle' = [handle EXCEPT ![u] = i]
              /\ tmp' = With(tmp, Path(u), i)
              /\ content' = With(content, i, [ns |-> Ns(u), of |-> u, whole |-> FALSE])
  /\ UNCHANGED <<up, disk, maps, request, unread, got, crashes, promised>>

CloseTmp(u) ==
  /\ pc[u] = "writing" /\ Go(u, "replace")
  /\ content' = [content EXCEPT ![handle[u]].whole = TRUE]
  /\ UNCHANGED <<up, disk, tmp, maps, locals, crashes, promised>>

\* if (File.Exists(targetPath)) File.Delete(targetPath)
DeleteTarget(u) ==
  /\ pc[u] = "replace" /\ Go(u, "move")
  /\ disk' = Without(disk, Path(u))
  /\ UNCHANGED <<up, tmp, content, maps, locals, crashes, promised>>

\* File.Move overwrites nothing, and throws when its source is gone.
MoveTmp(u) ==
  /\ pc[u] = "move"
  /\ IF Path(u) \in DOMAIN tmp /\ Path(u) \notin DOMAIN disk
       THEN /\ Go(u, "reload") /\ disk' = With(disk, Path(u), tmp[Path(u)])
            /\ tmp' = Without(tmp, Path(u))
            /\ unread' = [unread EXCEPT ![u] = DOMAIN disk'] /\ got' = [got EXCEPT ![u] = <<>>]
       ELSE Go(u, "failed") /\ UNCHANGED <<disk, tmp, unread, got>>
  /\ UNCHANGED <<up, content, maps, request, handle, crashes, promised>>

\* SchemaRegistry.Reload reads file by file; one that cannot be read throws.
ReadSchema(u) ==
  /\ pc[u] = "reload"
  /\ \E p \in unread[u] :
       IF Readable(p)
         THEN /\ Go(u, "reload") /\ unread' = [unread EXCEPT ![u] = @ \ {p}]
              /\ got' = [got EXCEPT ![u] = With(@, content[disk[p]].ns, content[disk[p]].of)]
         ELSE Go(u, "failed") /\ UNCHANGED <<unread, got>>
  /\ UNCHANGED <<up, files, maps, request, handle, crashes, promised>>

\* Mutant of SwapRegistry: the reference is derived from the types listed before.
SwapRegistryLate(u) ==
  /\ pc[u] = "reload" /\ unread[u] = {} /\ Go(u, "derive")
  /\ registry' = got[u]
  /\ unread' = [unread EXCEPT ![u] = DOMAIN registry] /\ got' = [got EXCEPT ![u] = <<>>]
  /\ UNCHANGED <<up, files, reference, request, handle, crashes, promised>>

\* The swap under the lock; ReferenceService.Reload then lists the types it finds there.
SwapRegistry(u) ==
  /\ pc[u] = "reload" /\ unread[u] = {} /\ Go(u, "derive")
  /\ registry' = got[u]
  /\ unread' = [unread EXCEPT ![u] = DOMAIN got[u]] /\ got' = [got EXCEPT ![u] = <<>>]
  /\ UNCHANGED <<up, files, reference, request, handle, crashes, promised>>

\* GetSchema of one listed type, in the registry of that moment.
ExtractFields(u) ==
  /\ pc[u] = "derive" /\ Go(u, "derive")
  /\ \E n \in unread[u] :
       /\ unread' = [unread EXCEPT ![u] = @ \ {n}]
       /\ got' = IF n \in DOMAIN registry THEN [got EXCEPT ![u] = With(@, n, registry[n])] ELSE got
  /\ UNCHANGED <<up, files, maps, request, handle, crashes, promised>>

SwapReference(u) ==
  /\ pc[u] = "derive" /\ unread[u] = {} /\ Go(u, "done")
  /\ reference' = got[u] /\ promised' = promised \cup {u}
  /\ UNCHANGED <<up, files, registry, locals, crashes>>

\* The process ends at any time; what was written stays.
Crash ==
  /\ up /\ crashes < MaxCrashes /\ crashes' = crashes + 1 /\ up' = FALSE
  /\ pc' = [u \in Uploads |-> IF InFlight(u) THEN "lost" ELSE pc[u]]
  /\ registry' = <<>> /\ reference' = <<>>
  /\ UNCHANGED <<files, locals, promised>>

\* The constructors of both singletons, before any request is served: a file that
\* cannot be read keeps the backend from starting.
Restart ==
  /\ ~up /\ (\A p \in DOMAIN disk : Readable(p)) /\ up' = TRUE
  /\ registry' = Scanned /\ reference' = Scanned
  /\ UNCHANGED <<files, pc, locals, crashes, promised>>

UploadStep(u) ==
  \/ ReadNamespace(u) \/ DeleteOld(u) \/ OpenTmp(u) \/ CloseTmp(u) \/ DeleteTarget(u)
  \/ MoveTmp(u) \/ ReadSchema(u) \/ SwapRegistry(u) \/ ExtractFields(u) \/ SwapReference(u)

StoreNext ==
  \/ \E u \in Uploads : BeginUpload(u) \/ UploadStep(u)
  \/ Crash \/ Restart

StoreSpec == StoreInit /\ [][StoreNext]_storeVars

\* The section of the Workspace page sends one upload at a time.
SerialNext ==
  \/ \E u \in Uploads : (Quiet /\ BeginUpload(u)) \/ UploadStep(u)
  \/ Crash \/ Restart

SerialSpec == StoreInit /\ [][SerialNext]_storeVars

-----------------------------------------------------------------------------
StoreTypeOK ==
  /\ up \in BOOLEAN /\ crashes \in Nat /\ promised \subseteq Uploads
  /\ DOMAIN disk \subseteq Paths /\ DOMAIN tmp \subseteq Paths
  /\ \A p \in DOMAIN disk : disk[p] \in DOMAIN content
  /\ \A p \in DOMAIN tmp : tmp[p] \in DOMAIN content
  /\ DOMAIN content \subseteq Inodes
  /\ \A i \in DOMAIN content :
       content[i].ns \in Namespaces /\ content[i].of \in Inodes /\ content[i].whole \in BOOLEAN
  /\ DOMAIN registry \subseteq Namespaces /\ DOMAIN reference \subseteq Namespaces
  /\ pc \in [Uploads -> {"new", "scan", "delete", "writing", "replace", "move", "reload",
                         "derive", "done", "failed", "lost"}]
  /\ request \in [Uploads -> Requests]

\* "Write to .tmp then move over — avoids the registry seeing a half-written file": no
\* file of the directory is ever half a schema, so whenever the process ends, the next
\* start comes up.
FilesAreWhole == \A p \in DOMAIN disk : content[disk[p]].whole

\* "Queryable in the same request": no upload that has the directory to itself fails,
\* whatever crashes unread there, and its schema is in the directory and, while the
\* backend is up and no upload runs, in both maps, through crashes and restarts, until
\* its path or its namespace is uploaded again.
AnsweredIsStored ==
  /\ \A u \in Uploads : pc[u] # "failed"
  /\ \A u \in promised :
       /\ Path(u) \in DOMAIN disk /\ content[disk[Path(u)]].of = u
       /\ up /\ Quiet => /\ Ns(u) \in DOMAIN registry /\ registry[Ns(u)] = u
                         /\ Ns(u) \in DOMAIN reference /\ reference[Ns(u)] = u

\* Between uploads both maps are what the directory holds.
MapsAreOfTheDirectory == up /\ Quiet => registry = Scanned /\ reference = Scanned
=============================================================================
