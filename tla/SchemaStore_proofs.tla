--------------------------- MODULE SchemaStore_proofs ---------------------------
(* Theorems about SchemaStore: its types under any uploads, and, when an    *)
(* upload waits for the one before, that the directory holds whole schemas, *)
(* that answered uploads stay in it and that the maps follow it, for every  *)
(* set of uploads, paths and namespaces and any number of crashes.          *)
EXTENDS SchemaStore, TLAPS

Labels == {"new", "scan", "delete", "writing", "replace", "move", "reload",
           "derive", "done", "failed", "lost"}
FileRecords == [ns : Namespaces, of : Inodes, whole : BOOLEAN]

\* The types, with those of the variables that an upload works in.
TypeInv ==
  /\ up \in BOOLEAN /\ crashes \in Nat /\ promised \subseteq Uploads
  /\ DOMAIN disk \subseteq Paths /\ DOMAIN tmp \subseteq Paths
  /\ \A p \in DOMAIN disk : disk[p] \in DOMAIN content
  /\ \A p \in DOMAIN tmp : tmp[p] \in DOMAIN content
  /\ DOMAIN content \subseteq Inodes /\ content \in [DOMAIN content -> FileRecords]
  /\ DOMAIN registry \subseteq Namespaces /\ DOMAIN reference \subseteq Namespaces
  /\ pc \in [Uploads -> Labels] /\ request \in [Uploads -> Requests]
  /\ unread \in [Uploads -> SUBSET (Paths \cup Namespaces)]
  /\ handle \in [Uploads -> Inodes]
  /\ DOMAIN got = Uploads
  /\ \A u \in Uploads :
       /\ DOMAIN got[u] \subseteq Namespaces
       /\ pc[u] \in {"scan", "delete", "reload"} => unread[u] \subseteq Paths
       /\ pc[u] = "derive" => unread[u] \subseteq Namespaces
       /\ pc[u] = "writing" => handle[u] \in DOMAIN content

\* What With and Without do to a function.
LEMMA Updated ==
  ASSUME NEW f, NEW x, NEW v
  PROVE  /\ DOMAIN With(f, x, v) = DOMAIN f \cup {x}
         /\ With(f, x, v)[x] = v
         /\ \A y \in DOMAIN f : y # x => With(f, x, v)[y] = f[y]
         /\ DOMAIN Without(f, x) = DOMAIN f \ {x}
         /\ \A y \in DOMAIN f : y # x => Without(f, x)[y] = f[y]
  BY DEF With, Without

\* Replacing one file's record keeps the store of records one.
LEMMA RecordStored ==
  ASSUME NEW c, NEW i \in Inodes, NEW r \in FileRecords,
         DOMAIN c \subseteq Inodes, c \in [DOMAIN c -> FileRecords]
  PROVE  /\ DOMAIN With(c, i, r) \subseteq Inodes
         /\ With(c, i, r) \in [DOMAIN With(c, i, r) -> FileRecords]
  BY DEF With

\* An upload's path and namespace are of their sets.
LEMMA RequestType ==
  ASSUME TypeInv, NEW u \in Uploads
  PROVE  Path(u) \in Paths /\ Ns(u) \in Namespaces
  <1>1. request[u] \in Paths \X Namespaces BY RequestsAssumption DEF TypeInv
  <1> QED BY <1>1 DEF Path, Ns

\* The map of a scan is of the namespaces of the files.
LEMMA ScannedType ==
  ASSUME TypeInv
  PROVE  DOMAIN Scanned \subseteq Namespaces
  <1>1. ASSUME NEW p \in DOMAIN disk PROVE content[disk[p]].ns \in Namespaces
    <2>1. content[disk[p]] \in FileRecords BY DEF TypeInv
    <2> QED BY <2>1 DEF FileRecords
  <1> QED BY <1>1 DEF Scanned

\* The types hold of the shipped schemas ...
LEMMA TypeInit == StoreInit => TypeInv
  <1> SUFFICES ASSUME StoreInit PROVE TypeInv OBVIOUS
  <1>1. content \in [DOMAIN content -> FileRecords] /\ DOMAIN content \subseteq Inodes
    BY ShippedAssumption DEF StoreInit, FileRecords, Inodes
  <1>2. DOMAIN disk = DOMAIN Shipped /\ (\A p \in DOMAIN disk : disk[p] = p)
        /\ DOMAIN content = DOMAIN Shipped /\ DOMAIN tmp = {}
    BY DEF StoreInit
  <1>3. \A p \in DOMAIN disk : content[disk[p]].ns \in Namespaces
    BY <1>1, <1>2 DEF FileRecords
  <1>4. DOMAIN Scanned \subseteq Namespaces BY <1>3 DEF Scanned
  <1>5. handle \in [Uploads -> Inodes] /\ DOMAIN got = Uploads
        /\ (\A u \in Uploads : DOMAIN got[u] = {} /\ unread[u] = {} /\ pc[u] = "new")
        /\ pc \in [Uploads -> Labels]
        /\ unread \in [Uploads -> SUBSET (Paths \cup Namespaces)]
    BY DEF StoreInit, Inodes, Labels
  <1> QED BY <1>1, <1>2, <1>4, <1>5, ShippedAssumption DEF TypeInv, StoreInit

\* ... and after every step of any uploads, crash or restart.
LEMMA TypeStep == TypeInv /\ [StoreNext]_storeVars => TypeInv'
  <1> SUFFICES ASSUME TypeInv, [StoreNext]_storeVars PROVE TypeInv' OBVIOUS
  <1>1. ASSUME NEW u \in Uploads, BeginUpload(u) PROVE TypeInv'
    BY <1>1 DEF TypeInv, BeginUpload, Go, Labels, files, maps
  <1>2. ASSUME NEW u \in Uploads, ReadNamespace(u) PROVE TypeInv'
    BY <1>2 DEF TypeInv, ReadNamespace, Go, Labels, files, maps, Inodes
  <1>3. ASSUME NEW u \in Uploads, DeleteOld(u) PROVE TypeInv'
    BY <1>3 DEF TypeInv, DeleteOld, Go, Labels, maps, Without
  <1>4. ASSUME NEW u \in Uploads, OpenTmp(u) PROVE TypeInv'
    <2> DEFINE i == IF Path(u) \in DOMAIN tmp THEN tmp[Path(u)] ELSE u
               r == [ns |-> Ns(u), of |-> u, whole |-> FALSE]
    <2>1. CASE Locked(i)
      BY <1>4, <2>1 DEF TypeInv, OpenTmp, Go, Labels, maps
    <2>2. CASE ~Locked(i)
      <3>1. i \in Inodes BY DEF TypeInv, Inodes
      <3>2. r \in FileRecords BY RequestType DEF FileRecords, Inodes
      <3>3. /\ content' = With(content, i, r) /\ tmp' = With(tmp, Path(u), i)
            /\ handle' = [handle EXCEPT ![u] = i] /\ pc' = [pc EXCEPT ![u] = "writing"]
            /\ UNCHANGED <<up, disk, maps, request, unread, got, crashes, promised>>
        BY <1>4, <2>2 DEF OpenTmp, Go
      <3> HIDE DEF i, r
      <3>4. DOMAIN content' \subseteq Inodes /\ content' \in [DOMAIN content' -> FileRecords]
        BY <3>1, <3>2, <3>3, RecordStored DEF TypeInv
      <3>5. DOMAIN content' = DOMAIN content \cup {i} /\ DOMAIN tmp' = DOMAIN tmp \cup {Path(u)}
        BY <3>3, Updated
      <3>6. ASSUME NEW p \in DOMAIN tmp' PROVE tmp'[p] \in DOMAIN content'
        BY <3>3, <3>5 DEF TypeInv, With
      <3> QED BY <3>1, <3>3, <3>4, <3>5, <3>6, RequestType DEF TypeInv, Labels, maps
    <2> QED BY <2>1, <2>2
  <1>5. ASSUME NEW u \in Uploads, CloseTmp(u) PROVE TypeInv'
    <2>1. content' \in [DOMAIN content -> FileRecords] /\ DOMAIN content' = DOMAIN content
      BY <1>5 DEF CloseTmp, TypeInv, FileRecords
    <2> QED BY <1>5, <2>1 DEF TypeInv, CloseTmp, Go, Labels, maps, locals
  <1>6. ASSUME NEW u \in Uploads, DeleteTarget(u) PROVE TypeInv'
    BY <1>6 DEF TypeInv, DeleteTarget, Go, Labels, maps, locals, Without
  <1>7. ASSUME NEW u \in Uploads, MoveTmp(u) PROVE TypeInv'
    <2>1. CASE Path(u) \in DOMAIN tmp /\ Path(u) \notin DOMAIN disk
      <3>1. /\ disk' = With(disk, Path(u), tmp[Path(u)]) /\ tmp' = Without(tmp, Path(u))
            /\ unread' = [unread EXCEPT ![u] = DOMAIN disk'] /\ got' = [got EXCEPT ![u] = <<>>]
            /\ pc' = [pc EXCEPT ![u] = "reload"]
            /\ UNCHANGED <<up, content, maps, request, handle, crashes, promised>>
        BY <1>7, <2>1 DEF MoveTmp, Go
      <3>2. DOMAIN disk' = DOMAIN disk \cup {Path(u)} /\ DOMAIN tmp' \subseteq DOMAIN tmp
        BY <3>1 DEF With, Without
      <3>3. ASSUME NEW p \in DOMAIN disk' PROVE disk'[p] \in DOMAIN content'
        BY <2>1, <3>1, <3>2 DEF TypeInv, With
      <3>4. ASSUME NEW p \in DOMAIN tmp' PROVE tmp'[p] \in DOMAIN content'
        BY <3>1, <3>2 DEF TypeInv, Without
      <3>5. DOMAIN disk' \subseteq Paths BY <3>2, RequestType DEF TypeInv
      <3> HIDE DEF TypeInv
      <3> QED BY <3>1, <3>2, <3>3, <3>4, <3>5 DEF TypeInv, Labels, maps
    <2>2. CASE ~(Path(u) \in DOMAIN tmp /\ Path(u) \notin DOMAIN disk)
      BY <1>7, <2>2 DEF TypeInv, MoveTmp, Go, Labels, maps
    <2> QED BY <2>1, <2>2
  <1>8. ASSUME NEW u \in Uploads, ReadSchema(u) PROVE TypeInv'
    <2> PICK p \in unread[u] :
          IF Readable(p)
            THEN /\ Go(u, "reload") /\ unread' = [unread EXCEPT ![u] = @ \ {p}]
                 /\ got' = [got EXCEPT ![u] = With(@, content[disk[p]].ns, content[disk[p]].of)]
            ELSE Go(u, "failed") /\ UNCHANGED <<unread, got>>
      BY <1>8 DEF ReadSchema
    <2>1. CASE Readable(p)
      <3>1. content[disk[p]].ns \in Namespaces
        BY <2>1 DEF Readable, TypeInv, FileRecords
      <3>2. DOMAIN got'[u] \subseteq Namespaces
        BY <2>1, <3>1 DEF TypeInv, With
      <3> QED BY <1>8, <2>1, <3>2 DEF TypeInv, ReadSchema, Go, Labels, files, maps
    <2>2. CASE ~Readable(p)
      BY <1>8, <2>2 DEF TypeInv, ReadSchema, Go, Labels, files, maps
    <2> QED BY <2>1, <2>2
  <1>9. ASSUME NEW u \in Uploads, SwapRegistry(u) PROVE TypeInv'
    BY <1>9 DEF TypeInv, SwapRegistry, Go, Labels, files
  <1>10. ASSUME NEW u \in Uploads, ExtractFields(u) PROVE TypeInv'
    <2> PICK n \in unread[u] :
          /\ unread' = [unread EXCEPT ![u] = @ \ {n}]
          /\ got' = IF n \in DOMAIN registry THEN [got EXCEPT ![u] = With(@, n, registry[n])]
                                             ELSE got
      BY <1>10 DEF ExtractFields
    <2>1. DOMAIN got'[u] \subseteq Namespaces BY DEF TypeInv, With
    <2> QED BY <1>10, <2>1 DEF TypeInv, ExtractFields, Go, Labels, files, maps
  <1>11. ASSUME NEW u \in Uploads, SwapReference(u) PROVE TypeInv'
    BY <1>11 DEF TypeInv, SwapReference, Go, Labels, files, locals
  <1>12. CASE Crash
    <2>1. pc' \in [Uploads -> Labels] BY <1>12 DEF TypeInv, Crash, Labels
    <2>2. \A u \in Uploads : pc'[u] \in {"new", "done", "failed", "lost"}
      BY <1>12 DEF Crash, InFlight
    <2>3. DOMAIN registry' = {} /\ DOMAIN reference' = {} BY <1>12 DEF Crash
    <2>4. crashes' \in Nat /\ up' \in BOOLEAN
      <3>1. crashes \in Nat BY DEF TypeInv
      <3>2. crashes' = crashes + 1 BY <1>12 DEF Crash
      <3>3. crashes' \in Nat BY <3>1, <3>2
      <3>4. up' = FALSE BY <1>12 DEF Crash
      <3>5. up' \in BOOLEAN BY <3>4, Zenon
      <3> QED BY <3>3, <3>5
    <2>5. UNCHANGED <<disk, tmp, content, request, unread, got, handle, promised>>
      BY <1>12 DEF Crash, files, locals
    <2> QED BY <2>1, <2>2, <2>3, <2>4, <2>5 DEF TypeInv
  <1>13. CASE Restart
    <2>1. DOMAIN registry' \subseteq Namespaces /\ DOMAIN reference' \subseteq Namespaces
      BY <1>13, ScannedType DEF Restart
    <2> QED BY <1>13, <2>1 DEF TypeInv, Restart, files, locals
  <1>14. CASE UNCHANGED storeVars
    BY <1>14 DEF TypeInv, storeVars, files, maps, locals
  <1> QED BY <1>1, <1>2, <1>3, <1>4, <1>5, <1>6, <1>7, <1>8, <1>9, <1>10, <1>11, <1>12,
             <1>13, <1>14 DEF StoreNext, UploadStep

\* They contain the types that are checked.
LEMMA TypesAreTyped == TypeInv => StoreTypeOK
  BY DEF TypeInv, StoreTypeOK, FileRecords, Labels

\* However uploads overlap and wherever the process ends, the directory, the two maps
\* and the uploads at work keep to their types: no path leads to an inode that was
\* never written.
THEOREM TypeCorrect == StoreSpec => []StoreTypeOK
  <1> QED BY TypeInit, TypeStep, TypesAreTyped, PTL DEF StoreSpec

-----------------------------------------------------------------------------
\* What is at a path is what upload u stored there.
Stored(u) == Path(u) \in DOMAIN disk
             /\ content[disk[Path(u)]] = [ns |-> Ns(u), of |-> u, whole |-> TRUE]
Cleared(u) == \A p \in DOMAIN disk : content[disk[p]].ns # Ns(u)

\* One upload is at work, and only while the backend runs.
Alone == \A u \in Uploads :
           InFlight(u) => up /\ \A v \in Uploads : InFlight(v) => v = u

\* The directory has one whole file for each namespace, none of them under a .tmp name.
Directory ==
  /\ FilesAreWhole
  /\ \A p, q \in DOMAIN disk : content[disk[p]].ns = content[disk[q]].ns => p = q
  /\ \A p, q \in DOMAIN tmp : tmp[p] = tmp[q] => p = q
  /\ \A p \in DOMAIN disk : \A q \in DOMAIN tmp : disk[p] # tmp[q]

\* Where an upload is, and what it has made of the directory by then.
Scanning(u) ==
  /\ pc[u] \in {"new", "scan", "delete"} => u \notin DOMAIN content
  /\ pc[u] \in {"scan", "delete"} =>
       \A p \in DOMAIN disk : content[disk[p]].ns = Ns(u) => p \in unread[u]
  /\ pc[u] = "delete" => handle[u] \in DOMAIN disk /\ content[disk[handle[u]]].ns = Ns(u)
Writing(u) ==
  pc[u] \in {"writing", "replace", "move"} =>
    /\ Path(u) \in DOMAIN tmp /\ Cleared(u)
    /\ content[tmp[Path(u)]] = [ns |-> Ns(u), of |-> u, whole |-> pc[u] # "writing"]
    /\ pc[u] = "writing" => handle[u] = tmp[Path(u)]
    /\ pc[u] = "move" => Path(u) \notin DOMAIN disk
Loading(u) ==
  /\ pc[u] \in {"reload", "derive"} => Stored(u)
  /\ pc[u] = "reload" =>
       /\ unread[u] \subseteq DOMAIN disk
       /\ got[u] = [n \in {content[disk[p]].ns : p \in DOMAIN disk \ unread[u]} |->
                      content[disk[CHOOSE p \in DOMAIN disk : content[disk[p]].ns = n]].of]
  /\ pc[u] = "derive" =>
       /\ registry = Scanned /\ unread[u] \subseteq DOMAIN registry
       /\ got[u] = [n \in DOMAIN registry \ unread[u] |-> registry[n]]

\* An answered upload is where it was stored, and the one at work leaves it there.
Kept == \A v \in promised :
          /\ pc[v] = "done" /\ Stored(v)
          /\ \A u \in Uploads : InFlight(u) => Path(u) # Path(v) /\ Ns(u) # Ns(v)

SerialInv ==
  /\ TypeInv /\ Alone /\ Directory /\ Kept /\ MapsAreOfTheDirectory
  /\ \A u \in Uploads : pc[u] # "failed" /\ Scanning(u) /\ Writing(u) /\ Loading(u)

\* The file of a namespace is the one that a scan finds for it.
LEMMA FoundByScan ==
  ASSUME Directory, NEW p \in DOMAIN disk
  PROVE  /\ content[disk[p]].ns \in DOMAIN Scanned
         /\ (CHOOSE q \in DOMAIN disk : content[disk[q]].ns = content[disk[p]].ns) = p
         /\ Scanned[content[disk[p]].ns] = content[disk[p]].of
  <1> DEFINE n == content[disk[p]].ns
             c == CHOOSE q \in DOMAIN disk : content[disk[q]].ns = n
  <1>1. c \in DOMAIN disk /\ content[disk[c]].ns = n OBVIOUS
  <1>2. c = p BY <1>1 DEF Directory
  <1>3. n \in DOMAIN Scanned BY DEF Scanned
  <1>4. Scanned[n] = content[disk[c]].of BY <1>3 DEF Scanned
  <1> QED BY <1>2, <1>3, <1>4

\* With one upload at work nothing is held open but what it writes, so every file of
\* the directory can be read by it.
LEMMA ReadableAlone ==
  ASSUME SerialInv, NEW u \in Uploads, InFlight(u), pc[u] # "writing"
  PROVE  /\ \A i : ~Locked(i)
         /\ \A p \in DOMAIN disk : Readable(p)
  <1>1. \A v \in Uploads : pc[v] # "writing" BY DEF SerialInv, Alone, InFlight
  <1> QED BY <1>1 DEF Locked, Readable, SerialInv, Directory, FilesAreWhole

\* The shipped schemas are whole, of different namespaces and what both maps hold.
LEMMA SerialInit == StoreInit => SerialInv
  <1> SUFFICES ASSUME StoreInit PROVE SerialInv OBVIOUS
  <1>1. TypeInv BY TypeInit
  <1>2. \A u \in Uploads : pc[u] = "new" BY DEF StoreInit
  <1>3. DOMAIN content = DOMAIN Shipped /\ DOMAIN disk = DOMAIN Shipped /\ DOMAIN tmp = {}
        /\ (\A p \in DOMAIN disk : disk[p] = p /\ content[p].ns = Shipped[p] /\ content[p].whole)
    BY DEF StoreInit
  <1>4. Directory BY <1>3, ShippedAssumption DEF Directory, FilesAreWhole
  <1>5. Alone BY <1>2 DEF Alone, InFlight
  <1>6. Kept /\ MapsAreOfTheDirectory BY DEF Kept, MapsAreOfTheDirectory, StoreInit
  <1>7. ASSUME NEW u \in Uploads
        PROVE pc[u] # "failed" /\ Scanning(u) /\ Writing(u) /\ Loading(u)
    <2>1. u \notin DOMAIN content BY <1>3, ShippedAssumption
    <2> QED BY <1>2, <2>1 DEF Scanning, Writing, Loading
  <1> QED BY <1>1, <1>4, <1>5, <1>6, <1>7 DEF SerialInv

\* The uploads that are not at work need nothing of the directory but their own names.
LEMMA OthersRest ==
  ASSUME SerialInv, NEW u \in Uploads, InFlight(u), NEW v \in Uploads, v # u
  PROVE  pc[v] \in {"new", "done", "lost"}
  BY DEF SerialInv, Alone, InFlight, TypeInv, Labels

\* What a step of the upload at work leaves as it was, when it makes no file but its own.
LEMMA OtherUploadsStay ==
  ASSUME SerialInv, NEW u \in Uploads, InFlight(u), NEW label,
         pc' = [pc EXCEPT ![u] = label], up' = up,
         DOMAIN content' \subseteq DOMAIN content \cup {u}
  PROVE  /\ Alone' /\ pc'[u] = label
         /\ label \notin {"new", "done", "failed", "lost"} => MapsAreOfTheDirectory'
         /\ \A v \in Uploads : v # u =>
              pc'[v] # "failed" /\ Scanning(v)' /\ Writing(v)' /\ Loading(v)'
  <1>1. pc'[u] = label BY DEF SerialInv, TypeInv
  <1>2. \A v \in Uploads : v # u => pc'[v] = pc[v] BY DEF SerialInv, TypeInv
  <1>3. \A v \in Uploads : v # u => pc[v] \in {"new", "done", "lost"} BY OthersRest
  <1>4. up BY DEF SerialInv, Alone
  <1>5. Alone' BY <1>1, <1>2, <1>3, <1>4 DEF Alone, InFlight
  <1>6. label \notin {"new", "done", "failed", "lost"} => MapsAreOfTheDirectory'
    BY <1>1 DEF InFlight, MapsAreOfTheDirectory, Quiet
  <1>7. ASSUME NEW v \in Uploads, v # u
        PROVE  pc'[v] # "failed" /\ Scanning(v)' /\ Writing(v)' /\ Loading(v)'
    <2>1. pc'[v] \in {"new", "done", "lost"} BY <1>2, <1>3, <1>7
    <2>2. pc'[v] = "new" => v \notin DOMAIN content'
      BY <1>2, <1>7 DEF SerialInv, Scanning
    <2> QED BY <2>1, <2>2 DEF Scanning, Writing, Loading
  <1> QED BY <1>1, <1>5, <1>6, <1>7

\* Answered uploads are kept by a step of the one at work that leaves their files.
LEMMA KeptByStep ==
  ASSUME SerialInv, NEW u \in Uploads, InFlight(u), NEW label,
         pc' = [pc EXCEPT ![u] = label], UNCHANGED <<request, promised>>,
         \A v \in promised : Stored(v)'
  PROVE  Kept'
  <1>1. \A v \in promised : v \in Uploads /\ v # u /\ pc'[v] = "done"
    BY DEF SerialInv, TypeInv, Kept, InFlight
  <1>2. \A v \in Uploads : InFlight(v)' => v = u
    BY DEF SerialInv, TypeInv, Alone, InFlight
  <1> QED BY <1>1, <1>2 DEF SerialInv, Kept, Path, Ns

\* The steps that change no file of the directory leave it and what was stored in it.
LEMMA FilesStay ==
  ASSUME SerialInv, UNCHANGED files, UNCHANGED request
  PROVE  /\ Directory' /\ Scanned' = Scanned
         /\ \A v \in Uploads : Stored(v) => Stored(v)'
         /\ \A v \in promised : Stored(v)'
         /\ DOMAIN content' = DOMAIN content
  BY DEF SerialInv, TypeInv, Directory, FilesAreWhole, Stored, Path, Ns, Kept, Scanned, files

\* The invariant after a step of the upload at work, from what the step does to the
\* directory, to answered uploads and to its own place.
LEMMA StepKeeps ==
  ASSUME SerialInv, TypeInv', NEW u \in Uploads, InFlight(u),
         NEW label \in Labels \ {"new", "done", "failed", "lost"},
         pc' = [pc EXCEPT ![u] = label], up' = up, UNCHANGED <<request, promised>>,
         DOMAIN content' \subseteq DOMAIN content \cup {u},
         Directory', \A v \in promised : Stored(v)',
         Scanning(u)', Writing(u)', Loading(u)'
  PROVE  SerialInv'
  <1>1. /\ Alone' /\ pc'[u] = label /\ MapsAreOfTheDirectory'
        /\ \A v \in Uploads : v # u =>
             pc'[v] # "failed" /\ Scanning(v)' /\ Writing(v)' /\ Loading(v)'
    BY OtherUploadsStay
  <1>2. Kept' BY KeptByStep
  <1> QED BY <1>1, <1>2 DEF SerialInv

\* An upload that begins gives up what was promised of its path and namespace.
LEMMA BeginKeeps ==
  ASSUME SerialInv, TypeInv', NEW u \in Uploads, Quiet, BeginUpload(u)
  PROVE  SerialInv'
  <1>1. /\ pc[u] = "new" /\ up /\ pc' = [pc EXCEPT ![u] = "scan"]
        /\ unread' = [unread EXCEPT ![u] = DOMAIN disk]
        /\ promised' = {v \in promised : Path(v) # Path(u) /\ Ns(v) # Ns(u)}
        /\ UNCHANGED <<up, disk, tmp, content, registry, reference, request, got, handle>>
    BY DEF BeginUpload, Go, files, maps
  <1>2. pc'[u] = "scan" /\ (\A v \in Uploads : v # u => pc'[v] = pc[v] /\ unread'[v] = unread[v])
    BY <1>1 DEF SerialInv, TypeInv
  <1>3. unread'[u] = DOMAIN disk BY <1>1 DEF SerialInv, TypeInv
  <1>4. \A v \in Uploads : v # u => ~InFlight(v)' BY <1>2 DEF Quiet, InFlight
  <1>5. Alone' BY <1>1, <1>4 DEF Alone
  <1>6. Directory' /\ (\A v \in promised : Stored(v)') /\ DOMAIN content' = DOMAIN content
    BY <1>1, FilesStay DEF files
  <1>7. Kept'
    <2> SUFFICES ASSUME NEW v \in promised'
                 PROVE  /\ pc'[v] = "done" /\ Stored(v)'
                        /\ \A w \in Uploads : InFlight(w)' => (Path(w) # Path(v) /\ Ns(w) # Ns(v))'
      BY DEF Kept
    <2>1. v \in promised /\ Path(v) # Path(u) /\ Ns(v) # Ns(u) BY <1>1
    <2>2. pc[v] = "done" /\ v \in Uploads BY <2>1 DEF SerialInv, TypeInv, Kept
    <2>3. v # u BY <1>1, <2>2
    <2> QED BY <1>1, <1>2, <1>4, <1>6, <2>1, <2>2, <2>3 DEF Path, Ns
  <1>8. MapsAreOfTheDirectory' BY <1>2 DEF MapsAreOfTheDirectory, Quiet, InFlight
  <1>9. ASSUME NEW v \in Uploads
        PROVE  pc'[v] # "failed" /\ Scanning(v)' /\ Writing(v)' /\ Loading(v)'
    <2>1. CASE v = u
      <3>1. u \notin DOMAIN content BY <1>1 DEF SerialInv, Scanning
      <3> QED BY <1>1, <1>2, <1>3, <2>1, <3>1 DEF Scanning, Writing, Loading
    <2>2. CASE v # u
      <3>1. pc[v] \in {"new", "done", "lost"}
        BY DEF Quiet, InFlight, SerialInv, TypeInv, Labels
      <3> QED BY <1>1, <1>2, <2>2, <3>1 DEF SerialInv, Scanning, Writing, Loading
    <2> QED BY <2>1, <2>2
  <1> QED BY <1>5, <1>6, <1>7, <1>8, <1>9 DEF SerialInv

\* A scanned file is of another namespace or is the next one deleted.
LEMMA ReadNamespaceKeeps ==
  ASSUME SerialInv, TypeInv', NEW u \in Uploads, ReadNamespace(u)
  PROVE  SerialInv'
  <1>1. /\ pc[u] = "scan" /\ InFlight(u)
        /\ UNCHANGED <<up, disk, tmp, content, registry, reference, request, got, promised>>
    BY DEF ReadNamespace, InFlight, files, maps
  <1>2. Directory' /\ (\A v \in promised : Stored(v)') /\ DOMAIN content' = DOMAIN content
    BY <1>1, FilesStay DEF files
  <1>3. \A q \in DOMAIN disk : Readable(q) BY <1>1, ReadableAlone
  <1> PICK p \in unread[u] :
        IF Readable(p) /\ content[disk[p]].ns = Ns(u)
          THEN Go(u, "delete") /\ handle' = [handle EXCEPT ![u] = p] /\ UNCHANGED unread
          ELSE Go(u, "scan") /\ unread' = [unread EXCEPT ![u] = @ \ {p}] /\ UNCHANGED handle
    BY DEF ReadNamespace
  <1>4. CASE Readable(p) /\ content[disk[p]].ns = Ns(u)
    <2>1. pc' = [pc EXCEPT ![u] = "delete"] BY <1>4 DEF Go
    <2>2. pc'[u] = "delete" BY <2>1 DEF SerialInv, TypeInv
    <2>3. handle'[u] = p /\ p \in DOMAIN disk /\ unread' = unread
      BY <1>4 DEF Readable, SerialInv, TypeInv
    <2>4. Scanning(u)' /\ Writing(u)' /\ Loading(u)'
      BY <1>1, <1>4, <2>2, <2>3 DEF SerialInv, Scanning, Writing, Loading, Ns
    <2> QED BY <1>1, <1>2, <2>1, <2>4, StepKeeps DEF Labels
  <1>5. CASE ~(Readable(p) /\ content[disk[p]].ns = Ns(u))
    <2>1. pc' = [pc EXCEPT ![u] = "scan"] BY <1>5 DEF Go
    <2>2. unread'[u] = unread[u] \ {p} BY <1>5 DEF SerialInv, TypeInv
    <2>3. p \in DOMAIN disk => content[disk[p]].ns # Ns(u) BY <1>3, <1>5
    <2>4. Scanning(u)' /\ Writing(u)' /\ Loading(u)'
      BY <1>1, <2>1, <2>2, <2>3 DEF SerialInv, TypeInv, Scanning, Writing, Loading, Ns
    <2> QED BY <1>1, <1>2, <2>1, <2>4, StepKeeps DEF Labels
  <1> QED BY <1>4, <1>5

\* The file deleted is of the upload's own namespace, so of no kept upload.
LEMMA DeleteOldKeeps ==
  ASSUME SerialInv, TypeInv', NEW u \in Uploads, DeleteOld(u)
  PROVE  SerialInv'
  <1>1. /\ pc[u] = "delete" /\ InFlight(u) /\ pc' = [pc EXCEPT ![u] = "scan"]
        /\ disk' = Without(disk, handle[u]) /\ unread' = [unread EXCEPT ![u] = @ \ {handle[u]}]
        /\ UNCHANGED <<up, tmp, content, registry, reference, request, got, handle, promised>>
    BY DEF DeleteOld, Go, InFlight, maps
  <1>2. DOMAIN disk' = DOMAIN disk \ {handle[u]} /\ (\A p \in DOMAIN disk' : disk'[p] = disk[p])
    BY <1>1 DEF Without
  <1>3. Directory' BY <1>1, <1>2 DEF SerialInv, Directory, FilesAreWhole
  <1>4. ASSUME NEW v \in promised PROVE Stored(v)'
    <2>1. Stored(v) /\ Ns(u) # Ns(v) BY <1>1 DEF SerialInv, Kept
    <2>2. content[disk[handle[u]]].ns = Ns(u) BY <1>1 DEF SerialInv, Scanning
    <2>3. content[disk[Path(v)]].ns = Ns(v) BY <2>1 DEF Stored
    <2>4. Path(v) # handle[u] BY <2>1, <2>2, <2>3
    <2> QED BY <1>1, <1>2, <2>1, <2>4 DEF Stored, Path, Ns
  <1>5. unread'[u] = unread[u] \ {handle[u]} /\ pc'[u] = "scan" BY <1>1 DEF SerialInv, TypeInv
  <1>6. Scanning(u)' /\ Writing(u)' /\ Loading(u)'
    BY <1>1, <1>2, <1>5 DEF SerialInv, Scanning, Writing, Loading, Ns
  <1> QED BY <1>1, <1>3, <1>4, <1>6, StepKeeps DEF Labels

\* What is written is an inode of its own, reached by no path of the directory.
LEMMA OpenTmpKeeps ==
  ASSUME SerialInv, TypeInv', NEW u \in Uploads, OpenTmp(u)
  PROVE  SerialInv'
  <1> DEFINE i == IF Path(u) \in DOMAIN tmp THEN tmp[Path(u)] ELSE u
             r == [ns |-> Ns(u), of |-> u, whole |-> FALSE]
  <1>1. pc[u] = "scan" /\ InFlight(u) /\ unread[u] = {} BY DEF OpenTmp, InFlight
  <1>2. ~Locked(i) BY <1>1, ReadableAlone
  <1>3. /\ pc' = [pc EXCEPT ![u] = "writing"] /\ handle' = [handle EXCEPT ![u] = i]
        /\ tmp' = With(tmp, Path(u), i) /\ content' = With(content, i, r)
        /\ UNCHANGED <<up, disk, registry, reference, request, unread, got, promised>>
    BY <1>2 DEF OpenTmp, Go, maps
  <1>4. u \notin DOMAIN content /\ Cleared(u)
    BY <1>1 DEF SerialInv, Scanning, Cleared
  <1>5. \A p \in DOMAIN disk : disk[p] # i
    BY <1>4 DEF SerialInv, TypeInv, Directory
  <1>6. \A q \in DOMAIN tmp : q # Path(u) => tmp[q] # i
    BY <1>4 DEF SerialInv, TypeInv, Directory
  <1>7. i \in DOMAIN content \cup {u} BY DEF SerialInv, TypeInv
  <1> HIDE DEF i
  <1>8. /\ DOMAIN content' = DOMAIN content \cup {i} /\ content'[i] = r
        /\ \A j \in DOMAIN content : j # i => content'[j] = content[j]
    BY <1>3 DEF With
  <1>9. /\ DOMAIN tmp' = DOMAIN tmp \cup {Path(u)} /\ tmp'[Path(u)] = i
        /\ \A q \in DOMAIN tmp : q # Path(u) => tmp'[q] = tmp[q]
    BY <1>3 DEF With
  <1>10. \A p \in DOMAIN disk : content'[disk[p]] = content[disk[p]]
    BY <1>5, <1>8 DEF SerialInv, TypeInv
  <1>11. Directory'
    <2>1. FilesAreWhole' BY <1>3, <1>10 DEF SerialInv, Directory, FilesAreWhole
    <2>2. \A p, q \in DOMAIN disk' : content'[disk'[p]].ns = content'[disk'[q]].ns => p = q
      <3>1. \A p, q \in DOMAIN disk : content[disk[p]].ns = content[disk[q]].ns => p = q
        BY DEF SerialInv, Directory
      <3>2. disk' = disk BY <1>3
      <3> QED BY <1>10, <3>1, <3>2
    <2>3. \A p, q \in DOMAIN tmp' : tmp'[p] = tmp'[q] => p = q
      BY <1>6, <1>9 DEF SerialInv, Directory
    <2>4. \A p \in DOMAIN disk' : \A q \in DOMAIN tmp' : disk'[p] # tmp'[q]
      BY <1>3, <1>5, <1>9 DEF SerialInv, Directory
    <2> QED BY <2>1, <2>2, <2>3, <2>4 DEF Directory
  <1>12. \A v \in promised : Stored(v)'
    BY <1>3, <1>10 DEF SerialInv, Kept, Stored, Path, Ns
  <1>13. pc'[u] = "writing" /\ handle'[u] = i BY <1>3 DEF SerialInv, TypeInv
  <1>14. Scanning(u)' /\ Loading(u)' BY <1>13 DEF Scanning, Loading
  <1>15. Writing(u)'
    <2>1. Path(u)' = Path(u) /\ Ns(u)' = Ns(u) BY <1>3 DEF Path, Ns
    <2>2. Cleared(u)' BY <1>3, <1>4, <1>10, <2>1 DEF Cleared
    <2>3. r = [ns |-> Ns(u), of |-> u, whole |-> pc'[u] # "writing"] BY <1>13
    <2> QED BY <1>8, <1>9, <1>13, <2>1, <2>2, <2>3 DEF Writing
  <1>16. DOMAIN content' \subseteq DOMAIN content \cup {u} BY <1>7, <1>8
  <1> QED BY <1>1, <1>3, <1>11, <1>12, <1>14, <1>15, <1>16, StepKeeps DEF Labels

\* One field of a record replaced.
LEMMA FieldReplaced ==
  ASSUME NEW n, NEW v, NEW b, NEW w
  PROVE  [[ns |-> n, of |-> v, whole |-> b] EXCEPT !.whole = w] = [ns |-> n, of |-> v, whole |-> w]
  OBVIOUS

\* The written file becomes whole where no scan looks.
LEMMA CloseTmpKeeps ==
  ASSUME SerialInv, TypeInv', NEW u \in Uploads, CloseTmp(u)
  PROVE  SerialInv'
  <1> DEFINE i == tmp[Path(u)]
  <1>1. pc[u] = "writing" /\ InFlight(u) BY DEF CloseTmp, InFlight
  <1>2. /\ Path(u) \in DOMAIN tmp /\ handle[u] = i /\ Cleared(u)
        /\ content[i] = [ns |-> Ns(u), of |-> u, whole |-> FALSE]
    BY <1>1 DEF SerialInv, Writing
  <1>3. /\ pc' = [pc EXCEPT ![u] = "replace"] /\ content' = [content EXCEPT ![i].whole = TRUE]
        /\ UNCHANGED <<up, disk, tmp, registry, reference, request, unread, got, promised>>
    BY <1>2 DEF CloseTmp, Go, maps, locals
  <1>4. i \in DOMAIN content /\ (\A p \in DOMAIN disk : disk[p] # i)
    BY <1>2 DEF SerialInv, TypeInv, Directory
  <1>5. content'[i] = [ns |-> Ns(u), of |-> u, whole |-> TRUE] /\ DOMAIN content' = DOMAIN content
    <2>1. content'[i] = [content[i] EXCEPT !.whole = TRUE] /\ DOMAIN content' = DOMAIN content
      BY <1>3, <1>4
    <2>2. [[ns |-> Ns(u), of |-> u, whole |-> FALSE] EXCEPT !.whole = TRUE]
            = [ns |-> Ns(u), of |-> u, whole |-> TRUE]
      BY FieldReplaced, Zenon
    <2> QED BY <1>2, <2>1, <2>2, Zenon
  <1>6. \A p \in DOMAIN disk : content'[disk[p]] = content[disk[p]]
    BY <1>3, <1>4 DEF SerialInv, TypeInv
  <1>7. Directory'
    BY <1>3, <1>6 DEF SerialInv, Directory, FilesAreWhole
  <1>8. \A v \in promised : Stored(v)'
    BY <1>3, <1>6 DEF SerialInv, Kept, Stored, Path, Ns
  <1>9. pc'[u] = "replace" BY <1>3 DEF SerialInv, TypeInv
  <1>10. Scanning(u)' /\ Loading(u)' BY <1>9 DEF Scanning, Loading
  <1>11. Writing(u)'
    <2>1. Path(u)' = Path(u) /\ Ns(u)' = Ns(u) /\ tmp' = tmp BY <1>3 DEF Path, Ns
    <2>2. Cleared(u)' BY <1>2, <1>3, <1>6, <2>1 DEF Cleared
    <2>3. content'[i] = [ns |-> Ns(u), of |-> u, whole |-> pc'[u] # "writing"] BY <1>5, <1>9
    <2> QED BY <1>2, <1>9, <2>1, <2>2, <2>3 DEF Writing
  <1> QED BY <1>1, <1>3, <1>5, <1>7, <1>8, <1>10, <1>11, StepKeeps DEF Labels

\* The file at the target path is of no kept upload.
LEMMA DeleteTargetKeeps ==
  ASSUME SerialInv, TypeInv', NEW u \in Uploads, DeleteTarget(u)
  PROVE  SerialInv'
  <1>1. /\ pc[u] = "replace" /\ InFlight(u) /\ pc' = [pc EXCEPT ![u] = "move"]
        /\ disk' = Without(disk, Path(u))
        /\ UNCHANGED <<up, tmp, content, registry, reference, request, unread, got, handle, promised>>
    BY DEF DeleteTarget, Go, InFlight, maps, locals
  <1>2. DOMAIN disk' = DOMAIN disk \ {Path(u)} /\ (\A p \in DOMAIN disk' : disk'[p] = disk[p])
    BY <1>1 DEF Without
  <1>3. Directory' BY <1>1, <1>2 DEF SerialInv, Directory, FilesAreWhole
  <1>4. \A v \in promised : Stored(v)'
    BY <1>1, <1>2 DEF SerialInv, Kept, Stored, Path, Ns
  <1>5. pc'[u] = "move" BY <1>1 DEF SerialInv, TypeInv
  <1>6. Scanning(u)' /\ Loading(u)' BY <1>5 DEF Scanning, Loading
  <1>7. Writing(u)'
    <2>1. Path(u)' = Path(u) /\ Ns(u)' = Ns(u) BY <1>1 DEF Path, Ns
    <2>2. Path(u) \in DOMAIN tmp /\ Cleared(u)
          /\ content[tmp[Path(u)]] = [ns |-> Ns(u), of |-> u, whole |-> TRUE]
      BY <1>1 DEF SerialInv, Writing
    <2>3. Cleared(u)' BY <1>1, <1>2, <2>1, <2>2 DEF Cleared
    <2> QED BY <1>1, <1>2, <1>5, <2>1, <2>2, <2>3 DEF Writing
  <1> QED BY <1>1, <1>3, <1>4, <1>6, <1>7, StepKeeps DEF Labels

\* The move finds its .tmp, finds no target, and stores a whole file of a namespace that no other has.
LEMMA MoveTmpKeeps ==
  ASSUME SerialInv, TypeInv', NEW u \in Uploads, MoveTmp(u)
  PROVE  SerialInv'
  <1> DEFINE i == tmp[Path(u)]
  <1>1. pc[u] = "move" /\ InFlight(u) BY DEF MoveTmp, InFlight
  <1>2. /\ Path(u) \in DOMAIN tmp /\ Path(u) \notin DOMAIN disk /\ Cleared(u)
        /\ content[i] = [ns |-> Ns(u), of |-> u, whole |-> TRUE]
    BY <1>1 DEF SerialInv, Writing
  <1>3. /\ pc' = [pc EXCEPT ![u] = "reload"] /\ disk' = With(disk, Path(u), i)
        /\ tmp' = Without(tmp, Path(u)) /\ unread' = [unread EXCEPT ![u] = DOMAIN disk']
        /\ got' = [got EXCEPT ![u] = <<>>]
        /\ UNCHANGED <<up, content, registry, reference, request, handle, promised>>
    BY <1>2 DEF MoveTmp, Go, maps
  <1>4. /\ DOMAIN disk' = DOMAIN disk \cup {Path(u)} /\ disk'[Path(u)] = i
        /\ \A p \in DOMAIN disk : disk'[p] = disk[p]
    BY <1>2, <1>3 DEF With
  <1>5. DOMAIN tmp' = DOMAIN tmp \ {Path(u)} /\ (\A q \in DOMAIN tmp' : tmp'[q] = tmp[q])
    BY <1>3 DEF Without
  <1>6. Directory'
    <2>1. FilesAreWhole' BY <1>2, <1>3, <1>4 DEF SerialInv, Directory, FilesAreWhole
    <2>2. \A p, q \in DOMAIN disk' : content'[disk'[p]].ns = content'[disk'[q]].ns => p = q
      <3>1. content[i].ns = Ns(u) BY <1>2
      <3>2. \A p \in DOMAIN disk : content[disk[p]].ns # Ns(u) BY <1>2 DEF Cleared
      <3>3. \A p, q \in DOMAIN disk : content[disk[p]].ns = content[disk[q]].ns => p = q
        BY DEF SerialInv, Directory
      <3> HIDE DEF i
      <3> QED BY <1>3, <1>4, <3>1, <3>2, <3>3
    <2>3. \A p, q \in DOMAIN tmp' : tmp'[p] = tmp'[q] => p = q
      BY <1>5 DEF SerialInv, Directory
    <2>4. \A p \in DOMAIN disk' : \A q \in DOMAIN tmp' : disk'[p] # tmp'[q]
      BY <1>2, <1>4, <1>5 DEF SerialInv, Directory
    <2> QED BY <2>1, <2>2, <2>3, <2>4 DEF Directory
  <1>7. \A v \in promised : Stored(v)'
    BY <1>3, <1>4 DEF SerialInv, Kept, Stored, Path, Ns
  <1>8. pc'[u] = "reload" /\ unread'[u] = DOMAIN disk' /\ got'[u] = <<>>
    BY <1>3 DEF SerialInv, TypeInv
  <1>9. Scanning(u)' /\ Writing(u)' BY <1>8 DEF Scanning, Writing
  <1>10. Loading(u)'
    <2>1. Stored(u)' BY <1>2, <1>3, <1>4 DEF Stored, Path, Ns
    <2>2. got'[u] = [n \in {content'[disk'[p]].ns : p \in DOMAIN disk' \ unread'[u]} |->
            content'[disk'[CHOOSE p \in DOMAIN disk' : content'[disk'[p]].ns = n]].of]
      <3>1. {content'[disk'[p]].ns : p \in DOMAIN disk' \ unread'[u]} = {} BY <1>8
      <3> QED BY <1>8, <3>1
    <2> QED BY <1>8, <2>1, <2>2 DEF Loading
  <1> QED BY <1>1, <1>3, <1>6, <1>7, <1>9, <1>10, StepKeeps DEF Labels

\* Every file is read, and the map built so far is of the files read so far.
LEMMA ReadSchemaKeeps ==
  ASSUME SerialInv, TypeInv', NEW u \in Uploads, ReadSchema(u)
  PROVE  SerialInv'
  <1> DEFINE Of(n) == content[disk[CHOOSE p \in DOMAIN disk : content[disk[p]].ns = n]].of
             Read(rest) == {content[disk[p]].ns : p \in DOMAIN disk \ rest}
  <1>1. /\ pc[u] = "reload" /\ InFlight(u)
        /\ UNCHANGED <<up, disk, tmp, content, registry, reference, request, handle, promised>>
    BY DEF ReadSchema, InFlight, files, maps
  <1>2. Directory' /\ (\A v \in promised : Stored(v)') /\ DOMAIN content' = DOMAIN content
    BY <1>1, FilesStay DEF files
  <1>3. /\ Stored(u) /\ unread[u] \subseteq DOMAIN disk
        /\ got[u] = [n \in Read(unread[u]) |-> Of(n)]
    BY <1>1 DEF SerialInv, Loading
  <1>4. PICK p \in unread[u] :
          /\ pc' = [pc EXCEPT ![u] = "reload"] /\ unread' = [unread EXCEPT ![u] = @ \ {p}]
          /\ got' = [got EXCEPT ![u] = With(@, content[disk[p]].ns, content[disk[p]].of)]
    BY <1>1, <1>3, ReadableAlone DEF ReadSchema, Go
  <1>5. /\ pc'[u] = "reload" /\ unread'[u] = unread[u] \ {p}
        /\ got'[u] = With(got[u], content[disk[p]].ns, content[disk[p]].of)
    BY <1>4 DEF SerialInv, TypeInv
  <1>6. p \in DOMAIN disk BY <1>3
  <1>7. content[disk[p]].of = Of(content[disk[p]].ns)
    BY <1>6, FoundByScan DEF SerialInv
  <1>8. Read(unread[u] \ {p}) = Read(unread[u]) \cup {content[disk[p]].ns}
    BY <1>6
  <1> DEFINE m == content[disk[p]].ns
  <1>9. With([n \in Read(unread[u]) |-> Of(n)], m, Of(m))
          = [n \in Read(unread[u]) \cup {m} |-> Of(n)]
    <2> HIDE DEF Of, Read, m
    <2> QED BY DEF With
  <1>10. got'[u] = [n \in Read(unread[u] \ {p}) |-> Of(n)]
    <2> HIDE DEF Of, Read
    <2> QED BY <1>3, <1>5, <1>7, <1>8, <1>9
  <1>11. Stored(u)' BY <1>1, <1>3 DEF Stored, Path, Ns
  <1>12. Scanning(u)' /\ Writing(u)' BY <1>5 DEF Scanning, Writing
  <1>13. Loading(u)'
    <2>1. unread'[u] \subseteq DOMAIN disk' BY <1>1, <1>3, <1>5
    <2>2. got'[u] = [n \in {content'[disk'[q]].ns : q \in DOMAIN disk' \ unread'[u]} |->
            content'[disk'[CHOOSE q \in DOMAIN disk' : content'[disk'[q]].ns = n]].of]
      BY <1>1, <1>5, <1>10
    <2> QED BY <1>5, <1>11, <2>1, <2>2 DEF Loading
  <1> QED BY <1>1, <1>2, <1>4, <1>12, <1>13, StepKeeps DEF Labels

\* With every file read, the map is that of a scan.
LEMMA SwapRegistryKeeps ==
  ASSUME SerialInv, TypeInv', NEW u \in Uploads, SwapRegistry(u)
  PROVE  SerialInv'
  <1>1. /\ pc[u] = "reload" /\ unread[u] = {} /\ InFlight(u)
        /\ pc' = [pc EXCEPT ![u] = "derive"] /\ registry' = got[u]
        /\ unread' = [unread EXCEPT ![u] = DOMAIN got[u]] /\ got' = [got EXCEPT ![u] = <<>>]
        /\ UNCHANGED <<up, disk, tmp, content, reference, request, handle, promised>>
    BY DEF SwapRegistry, Go, InFlight, files
  <1>2. Directory' /\ (\A v \in promised : Stored(v)') /\ DOMAIN content' = DOMAIN content
        /\ Scanned' = Scanned
    BY <1>1, FilesStay DEF files
  <1>3. got[u] = Scanned
    <2>1. DOMAIN disk \ unread[u] = DOMAIN disk BY <1>1
    <2> QED BY <1>1, <2>1 DEF SerialInv, Loading, Scanned
  <1>4. pc'[u] = "derive" /\ unread'[u] = DOMAIN registry' /\ got'[u] = <<>>
    BY <1>1 DEF SerialInv, TypeInv
  <1>5. Stored(u)' BY <1>1 DEF SerialInv, Loading, Stored, Path, Ns
  <1>6. got'[u] = [n \in DOMAIN registry' \ unread'[u] |-> registry'[n]]
    <2>1. DOMAIN registry' \ unread'[u] = {} BY <1>4
    <2> QED BY <1>4, <2>1
  <1>7. Scanning(u)' /\ Writing(u)' /\ Loading(u)'
    BY <1>1, <1>2, <1>3, <1>4, <1>5, <1>6 DEF Scanning, Writing, Loading
  <1> QED BY <1>1, <1>2, <1>7, StepKeeps DEF Labels

\* The reference built so far is the registry of the types visited so far.
LEMMA ExtractFieldsKeeps ==
  ASSUME SerialInv, TypeInv', NEW u \in Uploads, ExtractFields(u)
  PROVE  SerialInv'
  <1>1. /\ pc[u] = "derive" /\ InFlight(u) /\ pc' = [pc EXCEPT ![u] = "derive"]
        /\ UNCHANGED <<up, disk, tmp, content, registry, reference, request, handle, promised>>
    BY DEF ExtractFields, Go, InFlight, files, maps
  <1>2. Directory' /\ (\A v \in promised : Stored(v)') /\ DOMAIN content' = DOMAIN content
        /\ Scanned' = Scanned
    BY <1>1, FilesStay DEF files
  <1>3. /\ Stored(u) /\ registry = Scanned /\ unread[u] \subseteq DOMAIN registry
        /\ got[u] = [n \in DOMAIN registry \ unread[u] |-> registry[n]]
    BY <1>1 DEF SerialInv, Loading
  <1>4. PICK n \in unread[u] :
          /\ unread' = [unread EXCEPT ![u] = @ \ {n}]
          /\ got' = [got EXCEPT ![u] = With(@, n, registry[n])]
    BY <1>3 DEF ExtractFields
  <1>5. pc'[u] = "derive" /\ unread'[u] = unread[u] \ {n}
        /\ got'[u] = With(got[u], n, registry[n])
    BY <1>1, <1>4 DEF SerialInv, TypeInv
  <1>6. got'[u] = [k \in DOMAIN registry' \ unread'[u] |-> registry'[k]]
    BY <1>1, <1>3, <1>5 DEF With
  <1>7. Stored(u)' BY <1>1, <1>3 DEF Stored, Path, Ns
  <1>8. Scanning(u)' /\ Writing(u)' /\ Loading(u)'
    BY <1>1, <1>2, <1>3, <1>5, <1>6, <1>7 DEF Scanning, Writing, Loading
  <1> QED BY <1>1, <1>2, <1>8, StepKeeps DEF Labels

\* With every type visited the reference is the registry, and the upload is answered.
LEMMA SwapReferenceKeeps ==
  ASSUME SerialInv, TypeInv', NEW u \in Uploads, SwapReference(u)
  PROVE  SerialInv'
  <1>1. /\ pc[u] = "derive" /\ unread[u] = {} /\ InFlight(u)
        /\ pc' = [pc EXCEPT ![u] = "done"]
        /\ reference' = got[u] /\ promised' = promised \cup {u}
        /\ UNCHANGED <<up, disk, tmp, content, registry, request, unread, got, handle>>
    BY DEF SwapReference, Go, InFlight, files, locals
  <1>2. Directory' /\ (\A v \in promised : Stored(v)') /\ DOMAIN content' = DOMAIN content
        /\ Scanned' = Scanned /\ (Stored(u) => Stored(u)')
    BY <1>1, FilesStay DEF files
  <1>3. /\ Stored(u) /\ registry = Scanned
        /\ got[u] = [n \in DOMAIN registry \ unread[u] |-> registry[n]]
    BY <1>1 DEF SerialInv, Loading
  <1>4. got[u] = registry
    <2>1. registry = [n \in DOMAIN registry |-> registry[n]]
      <3> DEFINE N == {content[disk[p]].ns : p \in DOMAIN disk}
                 Of(n) == content[disk[CHOOSE p \in DOMAIN disk : content[disk[p]].ns = n]].of
      <3>1. registry = [n \in N |-> Of(n)] BY <1>3 DEF Scanned
      <3> HIDE DEF N, Of
      <3> QED BY <3>1
    <2>2. DOMAIN registry \ unread[u] = DOMAIN registry BY <1>1
    <2> QED BY <1>3, <2>1, <2>2
  <1>5. /\ Alone' /\ pc'[u] = "done"
        /\ \A v \in Uploads : v # u =>
             pc'[v] # "failed" /\ Scanning(v)' /\ Writing(v)' /\ Loading(v)'
    BY <1>1, <1>2, OtherUploadsStay
  <1>6. \A w \in Uploads : ~InFlight(w)'
    BY <1>1, <1>5 DEF SerialInv, TypeInv, Alone, InFlight
  <1>7. \A v \in promised' : pc'[v] = "done" /\ Stored(v)'
    BY <1>1, <1>2, <1>3, <1>5 DEF SerialInv, TypeInv, Kept
  <1>8. Kept' BY <1>6, <1>7 DEF Kept, SerialInv, TypeInv
  <1>9. MapsAreOfTheDirectory' BY <1>1, <1>2, <1>3, <1>4 DEF MapsAreOfTheDirectory
  <1>10. Scanning(u)' /\ Writing(u)' /\ Loading(u)' BY <1>5 DEF Scanning, Writing, Loading
  <1> QED BY <1>2, <1>5, <1>8, <1>9, <1>10 DEF SerialInv

\* A crash leaves the directory, and nobody at work.
LEMMA CrashKeeps ==
  ASSUME SerialInv, TypeInv', Crash
  PROVE  SerialInv'
  <1>1. /\ up' = FALSE /\ UNCHANGED <<disk, tmp, content, request, promised>>
        /\ pc' = [u \in Uploads |-> IF InFlight(u) THEN "lost" ELSE pc[u]]
    BY DEF Crash, files, locals
  <1>2. Directory' /\ (\A v \in promised : Stored(v)') /\ DOMAIN content' = DOMAIN content
    BY <1>1, FilesStay DEF files
  <1>3. \A u \in Uploads : pc'[u] \in {"new", "done", "lost"} /\ (pc'[u] = "new" => pc[u] = "new")
    BY <1>1 DEF InFlight, SerialInv, TypeInv, Labels
  <1>4. Alone' BY <1>3 DEF Alone, InFlight
  <1>5. Kept'
    <2>1. \A v \in promised : v \in Uploads /\ pc'[v] = "done"
      BY <1>1 DEF SerialInv, TypeInv, Kept, InFlight
    <2> QED BY <1>1, <1>2, <1>3, <2>1 DEF Kept, InFlight
  <1>6. MapsAreOfTheDirectory' BY <1>1 DEF MapsAreOfTheDirectory
  <1>7. ASSUME NEW u \in Uploads
        PROVE  pc'[u] # "failed" /\ Scanning(u)' /\ Writing(u)' /\ Loading(u)'
    <2>1. pc'[u] = "new" => u \notin DOMAIN content'
      BY <1>2, <1>3 DEF SerialInv, Scanning
    <2> QED BY <1>3, <2>1 DEF Scanning, Writing, Loading
  <1> QED BY <1>2, <1>4, <1>5, <1>6, <1>7 DEF SerialInv

\* A restart scans it.
LEMMA RestartKeeps ==
  ASSUME SerialInv, TypeInv', Restart
  PROVE  SerialInv'
  <1>1. /\ ~up /\ up' /\ registry' = Scanned /\ reference' = Scanned
        /\ UNCHANGED <<disk, tmp, content, request, unread, got, handle, pc, promised>>
    BY DEF Restart, files, locals
  <1>2. Directory' /\ (\A v \in promised : Stored(v)') /\ DOMAIN content' = DOMAIN content
        /\ Scanned' = Scanned
    BY <1>1, FilesStay DEF files
  <1>3. \A u \in Uploads : ~InFlight(u) BY <1>1 DEF SerialInv, Alone
  <1>4. Alone' BY <1>1, <1>3 DEF Alone, InFlight
  <1>5. Kept' BY <1>1, <1>2, <1>3 DEF SerialInv, Kept, InFlight
  <1>6. MapsAreOfTheDirectory' BY <1>1, <1>2 DEF MapsAreOfTheDirectory
  <1>7. ASSUME NEW u \in Uploads
        PROVE  pc'[u] # "failed" /\ Scanning(u)' /\ Writing(u)' /\ Loading(u)'
    <2>1. pc'[u] = pc[u] /\ pc[u] \in {"new", "done", "lost"}
      BY <1>1, <1>3 DEF InFlight, SerialInv, TypeInv, Labels
    <2>2. pc'[u] = "new" => u \notin DOMAIN content'
      BY <1>1 DEF SerialInv, Scanning
    <2> QED BY <2>1, <2>2 DEF Scanning, Writing, Loading
  <1> QED BY <1>2, <1>4, <1>5, <1>6, <1>7 DEF SerialInv

\* Every step keeps the invariant.
LEMMA SerialStep == SerialInv /\ [SerialNext]_storeVars => SerialInv'
  <1> SUFFICES ASSUME SerialInv, [SerialNext]_storeVars PROVE SerialInv' OBVIOUS
  <1>1. [SerialNext]_storeVars => [StoreNext]_storeVars BY DEF SerialNext, StoreNext
  <1>2. TypeInv' BY <1>1, TypeStep DEF SerialInv
  <1>3. CASE UNCHANGED storeVars
    <2>1. UNCHANGED <<up, disk, tmp, content, registry, reference, pc, request, unread, got,
                      handle, promised>>
      BY <1>3 DEF storeVars, files, maps, locals
    <2>2. Directory' /\ Scanned' = Scanned /\ (\A v \in promised : Stored(v)')
          /\ (\A v \in Uploads : Stored(v) => Stored(v)')
      BY <2>1, FilesStay DEF files
    <2>3. Alone' /\ Kept' /\ MapsAreOfTheDirectory'
      BY <2>1, <2>2 DEF SerialInv, Alone, Kept, MapsAreOfTheDirectory, Quiet, InFlight, Path, Ns
    <2>4. ASSUME NEW u \in Uploads
          PROVE  pc'[u] # "failed" /\ Scanning(u)' /\ Writing(u)' /\ Loading(u)'
      <3>1. pc'[u] # "failed" /\ Scanning(u)' /\ Writing(u)'
        BY <2>1 DEF SerialInv, Scanning, Writing, Cleared, Path, Ns
      <3>2. Loading(u)'
        <4>1. Loading(u) BY DEF SerialInv
        <4>2. <<disk, content, registry, pc, unread, got>>' = <<disk, content, registry, pc, unread, got>>
          BY <2>1
        <4> QED BY <2>2, <4>1, <4>2 DEF Loading
      <3> QED BY <3>1, <3>2
    <2> QED BY <1>2, <2>2, <2>3, <2>4 DEF SerialInv
  <1>4. ASSUME NEW u \in Uploads, UploadStep(u) PROVE SerialInv'
    BY <1>2, <1>4, ReadNamespaceKeeps, DeleteOldKeeps, OpenTmpKeeps, CloseTmpKeeps,
       DeleteTargetKeeps, MoveTmpKeeps, ReadSchemaKeeps, SwapRegistryKeeps,
       ExtractFieldsKeeps, SwapReferenceKeeps
       DEF UploadStep
  <1> QED BY <1>2, <1>3, <1>4, BeginKeeps, CrashKeeps, RestartKeeps DEF SerialNext

\* The invariant contains what is promised.
LEMMA InvStored == SerialInv => FilesAreWhole /\ AnsweredIsStored /\ MapsAreOfTheDirectory
  <1> SUFFICES ASSUME SerialInv PROVE AnsweredIsStored
    BY DEF SerialInv, Directory
  <1>1. \A u \in Uploads : pc[u] # "failed" BY DEF SerialInv
  <1>2. ASSUME NEW u \in promised
        PROVE  /\ Path(u) \in DOMAIN disk /\ content[disk[Path(u)]].of = u
               /\ up /\ Quiet => /\ Ns(u) \in DOMAIN registry /\ registry[Ns(u)] = u
                                 /\ Ns(u) \in DOMAIN reference /\ reference[Ns(u)] = u
    <2>1. /\ Path(u) \in DOMAIN disk /\ content[disk[Path(u)]].ns = Ns(u)
          /\ content[disk[Path(u)]].of = u
      <3>1. Stored(u) BY DEF SerialInv, Kept
      <3> QED BY <3>1 DEF Stored
    <2>2. Ns(u) \in DOMAIN Scanned /\ Scanned[Ns(u)] = u
      BY <2>1, FoundByScan DEF SerialInv
    <2>3. up /\ Quiet => registry = Scanned /\ reference = Scanned
      BY DEF SerialInv, MapsAreOfTheDirectory
    <2> QED BY <2>1, <2>2, <2>3
  <1> QED BY <1>1, <1>2 DEF AnsweredIsStored

\* The invariant of uploads that wait for each other.
LEMMA SerialInvariance == SerialSpec => []SerialInv
  BY SerialInit, SerialStep, PTL DEF SerialSpec

\* Uploads that wait for each other never leave a torn file in the directory, whatever
\* they upload and wherever the process ends.
THEOREM WholeAlone == SerialSpec => []FilesAreWhole
  BY SerialInvariance, InvStored, PTL

\* None of them fails, and what was answered stays stored and served, through crashes
\* and restarts, until its path or its namespace is uploaded again.
THEOREM StoredAlone == SerialSpec => []AnsweredIsStored
  BY SerialInvariance, InvStored, PTL

\* Between two of them registry and reference are what a scan of the directory gives.
THEOREM MapsAlone == SerialSpec => []MapsAreOfTheDirectory
  BY SerialInvariance, InvStored, PTL
=============================================================================
