------------------------ MODULE MemoryMappingProofs ------------------------
(***************************************************************************)
(* Theorems about MemoryMapping, for any number of pages, fields, values   *)
(* and processes.                                                          *)
(***************************************************************************)
EXTENDS MemoryMapping, TLAPS

-----------------------------------------------------------------------------
(* The inductive invariants. *)

TypeOK ==
    /\ store \in [Pages -> Content \cup {Damaged}]
    /\ job \in [page : Pages, data : Content] \cup {None}
    /\ exposed \subseteq Pages
    /\ pc \in {"down", "idle", "read", "got", "writable", "sync", "write",
               "synced", "threw"}
    /\ page \in Pages \cup {None}
    /\ cached \subseteq Pages
    /\ data \in [cached -> Content]
    /\ modified \subseteq cached
    /\ unread \subseteq cached
    /\ spoiled \subseteq Pages
    /\ touched \subseteq Pages \X Fields
    /\ inherited \subseteq Pages

\* Where the process is tells what is in progress, and on which page: sync is
\* past the pages below its own, which are no longer modified.
ProcessInv ==
    /\ pc \in {"read", "got", "writable", "write"} => page \in cached
    /\ pc \in {"writable", "write"} => page \in modified
    /\ pc = "read" => page \in unread /\ page \notin modified
    /\ job # None <=> pc = "write"
    /\ pc = "write" => job = [page |-> page, data |-> data[page]]
    /\ pc = "sync" => \A p \in modified : page = None \/ p > page
    /\ pc = "write" => \A p \in modified : p >= page
    /\ pc = "synced" => modified = {}

\* A page whose last write did not end well is still modified, or it is the
\* write of an earlier process.
ExposedInv ==
    /\ exposed \subseteq modified \cup inherited
    /\ \A p \in Pages \ exposed : store[p] # Damaged

\* The fields nobody changed are as they were, in the cache and on the device.
OriginInv ==
    /\ \A p \in unread \ spoiled : pc = "read" /\ page = p
    /\ \A p \in cached \ (unread \cup spoiled), f \in Fields :
         <<p, f>> \notin touched => data[p].fields[f] = Origin

-----------------------------------------------------------------------------
(* Type correctness. *)

\* What a page holds is a page's content, whatever is read of it or put in it.
LEMMA ContentTypes ==
    ASSUME TypeOK
    PROVE  /\ Zeros \in Content
           /\ \A p \in Pages : Bytes(p) \in Content
           /\ \A c \in Content : WithCrc(c) \in Content /\ WithCrc(c).fields = c.fields
           /\ Damaged \notin Content
<1>1. Zeros \in Content
  BY DEF Zeros, Content
<1>2. \A p \in Pages : Bytes(p) \in Content
  BY <1>1 DEF Bytes, TypeOK
<1>3. \A c \in Content : WithCrc(c) \in Content /\ WithCrc(c).fields = c.fields
  BY DEF WithCrc, Content
<1>4. Damaged \notin Content
  BY TokenAssumption DEF Content
<1>5. QED
  BY <1>1, <1>2, <1>3, <1>4

LEMMA TypeInit == Init => TypeOK
<1> SUFFICES ASSUME Init PROVE TypeOK
  OBVIOUS
<1>1. store \in [Pages -> Content \cup {Damaged}]
  BY TokenAssumption DEF Init, Content
<1>2. data \in [cached -> Content]
  BY DEF Init
<1>3. QED
  BY <1>1, <1>2 DEF Init, TypeOK

LEMMA TypeStep ==
    ASSUME TypeOK, ProcessInv, [Next]_vars
    PROVE  TypeOK'
<1> USE DEF storeVars, cacheVars, historyVars, Idle
<1>1. CASE Start
  BY <1>1 DEF Start, TypeOK
<1>2. ASSUME NEW p \in Pages, GetCached(p) PROVE TypeOK'
  BY <1>2 DEF GetCached, TypeOK
<1>3. ASSUME NEW p \in Pages, Emplace(p) PROVE TypeOK'
  BY <1>3, ContentTypes DEF Emplace, TypeOK
<1>4. ASSUME NEW p \in Pages, WritePage(p) PROVE TypeOK'
  <2>1. p \in cached /\ data[p] \in Content
    BY <1>4 DEF WritePage, IsNext, Remaining, TypeOK
  <2>2. WithCrc(data[p]) \in Content
    BY <2>1, ContentTypes
  <2>3. data' \in [cached' -> Content]
    BY <1>4, <2>1, <2>2 DEF WritePage, TypeOK
  <2>4. job' \in [page : Pages, data : Content] /\ exposed' \subseteq Pages /\ store' = store
    BY <1>4, <2>2 DEF WritePage, Store!Begin, TypeOK
  <2>5. QED
    BY <1>4, <2>3, <2>4 DEF WritePage, TypeOK
<1>5. ASSUME NEW f \in Fields, NEW v \in Values, Change(f, v) PROVE TypeOK'
  <2>1. page \in cached /\ page \in Pages /\ data[page] \in Content
    BY <1>5 DEF Change, ProcessInv, TypeOK
  <2>2. [fields |-> [data[page].fields EXCEPT ![f] = v], crc |-> FALSE] \in Content
    BY <2>1 DEF Content
  <2>3. data' \in [cached' -> Content]
    BY <1>5, <2>1, <2>2 DEF Change, TypeOK
  <2>4. touched' \subseteq Pages \X Fields
    BY <1>5, <2>1 DEF Change, TypeOK
  <2>5. QED
    BY <1>5, <2>3, <2>4 DEF Change, TypeOK
<1>6. CASE GetWritable
  BY <1>6 DEF GetWritable, ProcessInv, TypeOK
<1>7. CASE ReadPage
  BY <1>7, ContentTypes DEF ReadPage, ProcessInv, TypeOK
<1>8. CASE ReadPageFails
  <2>1. page \in cached /\ page \in Pages
    BY <1>8 DEF ReadPageFails, ProcessInv, TypeOK
  <2>2. PICK read \in SUBSET Fields :
          data' = [data EXCEPT ![page].fields =
                     [f \in Fields |-> IF f \in read THEN Bytes(page).fields[f] ELSE @[f]]]
    BY <1>8 DEF ReadPageFails
  <2>3. data[page] \in Content /\ Bytes(page) \in Content
    BY <2>1, ContentTypes DEF TypeOK
  <2>4. [f \in Fields |-> IF f \in read THEN Bytes(page).fields[f] ELSE data[page].fields[f]]
           \in [Fields -> Values \cup {Zero}]
    BY <2>3 DEF Content
  <2>5. data' \in [cached -> Content]
    BY <2>1, <2>2, <2>3, <2>4 DEF TypeOK, Content
  <2>6. QED
    BY <1>8, <2>1, <2>5 DEF ReadPageFails, TypeOK
<1>9. CASE Sync
  BY <1>9 DEF Sync, TypeOK
<1>10. CASE Written
  BY <1>10 DEF Written, Store!EndOk, TypeOK
<1>11. CASE WriteFails
  BY <1>11 DEF WriteFails, Store!EndFailed, TypeOK
<1>12. CASE SyncReturns
  BY <1>12 DEF SyncReturns, TypeOK
<1>13. CASE Exit
  BY <1>13 DEF Exit, Store!EndFailed, TypeOK
<1>14. CASE Device
  BY <1>14 DEF Device, Store!Change, TypeOK
<1>15. CASE UNCHANGED vars
  BY <1>15 DEF vars, TypeOK
<1>16. QED
  BY <1>1, <1>2, <1>3, <1>4, <1>5, <1>6, <1>7, <1>8, <1>9, <1>10, <1>11, <1>12,
     <1>13, <1>14, <1>15 DEF Next

-----------------------------------------------------------------------------
(* Where the process is. *)

LEMMA ProcessInit == Init => ProcessInv
BY DEF Init, ProcessInv

LEMMA ProcessStep ==
    ASSUME TypeOK, ProcessInv, [Next]_vars
    PROVE  ProcessInv'
<1> USE DEF storeVars, cacheVars, historyVars, Idle
<1>1. CASE Start
  BY <1>1 DEF Start, ProcessInv
<1>2. ASSUME NEW p \in Pages, GetCached(p) PROVE ProcessInv'
  BY <1>2 DEF GetCached, ProcessInv
<1>3. ASSUME NEW p \in Pages, Emplace(p) PROVE ProcessInv'
  BY <1>3 DEF Emplace, ProcessInv, TypeOK
<1>4. ASSUME NEW p \in Pages, WritePage(p) PROVE ProcessInv'
  <2>1. p \in modified /\ p \in cached
    BY <1>4 DEF WritePage, IsNext, Remaining, TypeOK
  <2>2. job' = [page |-> p, data |-> WithCrc(data[p])] /\ data'[p] = WithCrc(data[p])
    BY <1>4, <2>1 DEF WritePage, Store!Begin, TypeOK
  <2>3. job' # None
    <3>1. WithCrc(data[p]) \in Content
      BY <2>1, ContentTypes DEF TypeOK
    <3>2. job' \in [page : Pages, data : Content]
      BY <2>2, <3>1
    <3>3. QED
      BY <3>2, TokenAssumption DEF Content
  <2>4. \A q \in modified : q >= p
    BY <1>4, PagesAreOrdered DEF WritePage, IsNext, Remaining, ProcessInv, TypeOK
  <2>5. QED
    BY <1>4, <2>1, <2>2, <2>3, <2>4 DEF WritePage, ProcessInv
<1>5. ASSUME NEW f \in Fields, NEW v \in Values, Change(f, v) PROVE ProcessInv'
  BY <1>5 DEF Change, ProcessInv
<1>6. CASE GetWritable
  BY <1>6 DEF GetWritable, ProcessInv
<1>7. CASE ReadPage
  BY <1>7 DEF ReadPage, ProcessInv
<1>8. CASE ReadPageFails
  BY <1>8 DEF ReadPageFails, ProcessInv
<1>9. CASE Sync
  BY <1>9 DEF Sync, ProcessInv
<1>10. CASE Written
  BY <1>10, PagesAreOrdered DEF Written, Store!EndOk, ProcessInv, TypeOK
<1>11. CASE WriteFails
  BY <1>11 DEF WriteFails, Store!EndFailed, ProcessInv
<1>12. CASE SyncReturns
  BY <1>12 DEF SyncReturns, Remaining, ProcessInv
<1>13. CASE Exit
  BY <1>13 DEF Exit, Store!EndFailed, ProcessInv
<1>14. CASE Device
  BY <1>14 DEF Device, Store!Change, ProcessInv
<1>15. CASE UNCHANGED vars
  BY <1>15 DEF vars, ProcessInv
<1>16. QED
  BY <1>1, <1>2, <1>3, <1>4, <1>5, <1>6, <1>7, <1>8, <1>9, <1>10, <1>11, <1>12,
     <1>13, <1>14, <1>15 DEF Next

\* The variables have their types, and the program counter tells what is in
\* progress (getPage, sync), in every reachable state.
THEOREM ProcessCorrect == Spec => [](TypeOK /\ ProcessInv)
<1>1. TypeOK /\ ProcessInv /\ [Next]_vars => TypeOK' /\ ProcessInv'
  BY TypeStep, ProcessStep
<1>2. QED
  BY <1>1, TypeInit, ProcessInit, PTL DEF Spec

-----------------------------------------------------------------------------
(* The cache and the device. *)

\* What the steps of the process do to the pages, in the words of PageStore:
\* writePage begins, returns or throws, and nothing else touches a page.
LEMMA StoreSteps ==
    ASSUME TypeOK, ProcessInv, [Next]_vars
    PROVE  \/ UNCHANGED storeVars
           \/ \E p \in Pages : WritePage(p) /\ Store!Begin(p, WithCrc(data[p]))
           \/ Written /\ Store!EndOk
           \/ WriteFails /\ Store!EndFailed
           \/ Exit /\ job # None /\ Store!EndFailed
           \/ Device /\ \E p \in exposed, c \in Content \cup {Damaged} : Store!Change(p, c)
<1> USE DEF storeVars
<1>1. CASE Start \/ GetWritable \/ ReadPage \/ ReadPageFails \/ Sync \/ SyncReturns
  BY <1>1 DEF Start, GetWritable, ReadPage, ReadPageFails, Sync, SyncReturns
<1>2. ASSUME NEW p \in Pages, GetCached(p) \/ Emplace(p) PROVE UNCHANGED storeVars
  BY <1>2 DEF GetCached, Emplace
<1>3. ASSUME NEW f \in Fields, NEW v \in Values, Change(f, v) PROVE UNCHANGED storeVars
  BY <1>3 DEF Change
<1>4. ASSUME NEW p \in Pages, WritePage(p) PROVE Store!Begin(p, WithCrc(data[p]))
  BY <1>4 DEF WritePage
<1>5. Written => Store!EndOk
  BY DEF Written
<1>6. WriteFails => Store!EndFailed
  BY DEF WriteFails
<1>7. CASE Exit
  BY <1>7 DEF Exit
<1>8. CASE Device
  <2>1. ASSUME NEW p \in exposed, Store!Change(p, Damaged)
        PROVE  \E q \in exposed, c \in Content \cup {Damaged} : Store!Change(q, c)
    BY <2>1
  <2>2. CASE job # None /\ Store!Change(job.page, job.data)
    <3>1. job \in [page : Pages, data : Content]
      BY <2>2 DEF TypeOK
    <3>2. job.page \in exposed
      BY <2>2 DEF Store!Change
    <3>3. job.data \in Content \cup {Damaged}
      BY <3>1
    <3>4. QED
      BY <1>8, <2>2, <3>2, <3>3
  <2>3. QED
    BY <1>8, <2>1, <2>2 DEF Device
<1>9. CASE UNCHANGED vars
  BY <1>9 DEF vars
<1>10. QED
  BY <1>1, <1>2, <1>3, <1>4, <1>5, <1>6, <1>7, <1>8, <1>9 DEF Next

LEMMA ExposedInit == Init => ExposedInv
<1> SUFFICES ASSUME Init PROVE ExposedInv
  OBVIOUS
<1>1. \A p \in Pages : store[p] \in Content
  BY TokenAssumption DEF Init, Content
<1>2. Damaged \notin Content
  BY TokenAssumption DEF Content
<1>3. QED
  BY <1>1, <1>2 DEF Init, ExposedInv

LEMMA ExposedStep ==
    ASSUME TypeOK, ProcessInv, ExposedInv, [Next]_vars
    PROVE  ExposedInv'
<1> USE DEF storeVars, cacheVars, historyVars
<1>1. CASE Start \/ ReadPage \/ ReadPageFails \/ Sync \/ SyncReturns \/ WriteFails
  BY <1>1 DEF Start, ReadPage, ReadPageFails, Sync, SyncReturns, WriteFails,
              Store!EndFailed, ExposedInv
<1>2. ASSUME NEW p \in Pages, GetCached(p) \/ Emplace(p) PROVE ExposedInv'
  BY <1>2 DEF GetCached, Emplace, ExposedInv
<1>3. ASSUME NEW f \in Fields, NEW v \in Values, Change(f, v) PROVE ExposedInv'
  BY <1>3 DEF Change, ExposedInv
<1>4. CASE GetWritable
  BY <1>4 DEF GetWritable, ExposedInv
<1>5. ASSUME NEW p \in Pages, WritePage(p) PROVE ExposedInv'
  BY <1>5 DEF WritePage, IsNext, Remaining, Store!Begin, ExposedInv
<1>6. CASE Written
  <2>1. store[page] = data[page] /\ data[page] \in Content
    BY <1>6 DEF Written, Store!EndOk, ProcessInv, TypeOK
  <2>2. store[page] # Damaged
    BY <2>1, ContentTypes
  <2>3. exposed' = exposed \ {page} /\ store' = store
    BY <1>6 DEF Written, Store!EndOk, ProcessInv
  <2>4. QED
    BY <1>6, <2>2, <2>3 DEF Written, ExposedInv
<1>7. CASE Exit
  BY <1>7 DEF Exit, Store!EndFailed, ExposedInv
<1>8. CASE Device
  BY <1>8 DEF Device, Store!Change, ExposedInv, TypeOK
<1>9. CASE UNCHANGED vars
  BY <1>9 DEF vars, ExposedInv
<1>10. QED
  BY <1>1, <1>2, <1>3, <1>4, <1>5, <1>6, <1>7, <1>8, <1>9 DEF Next

LEMMA CacheInit == Init => CacheIsStored
BY DEF Init, CacheIsStored

LEMMA CacheStep ==
    ASSUME TypeOK, ProcessInv, ExposedInv, CacheIsStored, [Next]_vars
    PROVE  CacheIsStored'
<1> USE DEF storeVars, cacheVars, historyVars, Unsettled, Bytes, Idle
<1>1. CASE Start \/ Sync \/ WriteFails
  BY <1>1 DEF Start, Sync, WriteFails, Store!EndFailed, CacheIsStored
<1>2. ASSUME NEW p \in Pages, GetCached(p) PROVE CacheIsStored'
  BY <1>2 DEF GetCached, CacheIsStored
<1>3. ASSUME NEW p \in Pages, Emplace(p) PROVE CacheIsStored'
  BY <1>3 DEF Emplace, CacheIsStored
<1>4. ASSUME NEW f \in Fields, NEW v \in Values, Change(f, v) PROVE CacheIsStored'
  BY <1>4 DEF Change, ProcessInv, TypeOK, CacheIsStored
<1>5. CASE GetWritable
  BY <1>5 DEF GetWritable, CacheIsStored
<1>6. CASE ReadPage
  <2>1. page \in cached /\ data'[page] = Bytes(page)
    BY <1>6 DEF ReadPage, ProcessInv, TypeOK
  <2>2. ASSUME NEW p \in cached \ {page} PROVE data'[p] = data[p]
    BY <1>6 DEF ReadPage, TypeOK
  <2>3. QED
    BY <1>6, <2>1, <2>2 DEF ReadPage, CacheIsStored
<1>7. CASE ReadPageFails
  <2>1. page \in unread
    BY <1>7 DEF ReadPageFails, ProcessInv
  <2>2. ASSUME NEW p \in cached \ {page} PROVE data'[p] = data[p]
    BY <1>7 DEF ReadPageFails, TypeOK
  <2>3. QED
    BY <1>7, <2>1, <2>2 DEF ReadPageFails, CacheIsStored
<1>8. ASSUME NEW p \in Pages, WritePage(p) PROVE CacheIsStored'
  BY <1>8 DEF WritePage, IsNext, Remaining, Store!Begin, TypeOK, CacheIsStored
<1>9. CASE Written
  <2>1. store[page] = data[page] /\ data[page] \in Content
    BY <1>9 DEF Written, Store!EndOk, ProcessInv, TypeOK
  <2>2. store[page] # Damaged
    BY <2>1, ContentTypes
  <2>3. exposed' = exposed \ {page} /\ store' = store
    BY <1>9 DEF Written, Store!EndOk, ProcessInv
  <2>4. QED
    BY <1>9, <2>1, <2>2, <2>3 DEF Written, ExposedInv, CacheIsStored
<1>10. CASE SyncReturns
  <2>1. modified = {}
    BY <1>10, PagesAreOrdered DEF SyncReturns, Remaining, ProcessInv, TypeOK
  <2>2. QED
    BY <1>10, <2>1 DEF SyncReturns, CacheIsStored
<1>11. CASE Exit
  BY <1>11 DEF Exit, CacheIsStored
<1>12. CASE Device
  <2>1. \A p \in Pages \ exposed : store'[p] = store[p]
    BY <1>12 DEF Device, Store!Change, TypeOK
  <2>2. \A p \in exposed \cap cached : p \in modified \/ p \in inherited
    BY DEF ExposedInv
  <2>3. pc = "synced" => modified = {}
    BY DEF ProcessInv
  <2>4. QED
    BY <1>12, <2>1, <2>2, <2>3 DEF Device, Store!Change, TypeOK, CacheIsStored
<1>13. CASE UNCHANGED vars
  BY <1>13 DEF vars, CacheIsStored
<1>14. QED
  BY <1>1, <1>2, <1>3, <1>4, <1>5, <1>6, <1>7, <1>8, <1>9, <1>10, <1>11, <1>12,
     <1>13 DEF Next

\* The cache is coherent with the device: a page that was read and is not
\* modified is in the cache as it is on the device, and when sync () returns
\* every page is, whatever calls of writePage failed before.
THEOREM CacheCoherent == Spec => []CacheIsStored
<1>1. TypeOK /\ ProcessInv /\ ExposedInv /\ [Next]_vars => ExposedInv'
  BY ExposedStep
<1>2. TypeOK /\ ProcessInv /\ ExposedInv /\ CacheIsStored /\ [Next]_vars => CacheIsStored'
  BY CacheStep
<1>3. QED
  BY <1>1, <1>2, ExposedInit, CacheInit, ProcessCorrect, PTL DEF Spec

-----------------------------------------------------------------------------
(* The fields that nobody changed. *)

LEMMA OriginInit == Init => OriginInv /\ OthersKept
<1> SUFFICES ASSUME Init PROVE OriginInv /\ OthersKept
  OBVIOUS
<1>1. OriginInv
  BY DEF Init, OriginInv
<1>2. OthersKept
  BY DEF Init, OthersKept
<1>3. QED
  BY <1>1, <1>2

\* A page that is not spoiled is read whole before anything else is done.
LEMMA OriginStep ==
    ASSUME TypeOK, ProcessInv, ExposedInv, OriginInv, OthersKept, [Next]_vars
    PROVE  OriginInv'
<1> USE DEF storeVars, cacheVars, historyVars, Idle
<1>1. CASE Start \/ GetWritable \/ Sync \/ Written \/ WriteFails \/ SyncReturns
  BY <1>1 DEF Start, GetWritable, Sync, Written, WriteFails, SyncReturns, OriginInv
<1>2. ASSUME NEW p \in Pages, GetCached(p) PROVE OriginInv'
  BY <1>2 DEF GetCached, OriginInv
<1>3. ASSUME NEW p \in Pages, Emplace(p) PROVE OriginInv'
  BY <1>3 DEF Emplace, OriginInv
<1>4. ASSUME NEW f \in Fields, NEW v \in Values, Change(f, v) PROVE OriginInv'
  <2>1. page \in cached /\ data[page] \in Content
    BY <1>4 DEF Change, ProcessInv, TypeOK
  <2>2. \A g \in Fields : g # f => data'[page].fields[g] = data[page].fields[g]
    BY <1>4, <2>1 DEF Change, TypeOK, Content
  <2>3. \A p \in cached \ {page} : data'[p] = data[p]
    BY <1>4 DEF Change, TypeOK
  <2>4. QED
    BY <1>4, <2>1, <2>2, <2>3 DEF Change, OriginInv
<1>5. ASSUME NEW p \in Pages, WritePage(p) PROVE OriginInv'
  <2>1. \A q \in cached : data'[q].fields = data[q].fields
    BY <1>5, ContentTypes DEF WritePage, TypeOK
  <2>2. QED
    BY <1>5, <2>1 DEF WritePage, OriginInv
<1>6. CASE ReadPage
  <2>1. page \in cached /\ page \in Pages /\ data' = [data EXCEPT ![page] = Bytes(page)]
    BY <1>6 DEF ReadPage, ProcessInv, TypeOK
  <2>2. ASSUME NEW f \in Fields, page \notin spoiled', <<page, f>> \notin touched
        PROVE  data'[page].fields[f] = Origin
    <3>1. page \notin exposed /\ page \notin spoiled
      BY <1>6, <2>2 DEF ReadPage
    <3>2. data'[page] = store[page]
      BY <2>1, <3>1 DEF ExposedInv, Bytes, TypeOK
    <3>3. store[page].fields[f] = Origin
      BY <2>1, <2>2, <3>1 DEF OthersKept
    <3>4. QED
      BY <3>2, <3>3
  <2>3. \A p \in cached \ {page} : data'[p] = data[p]
    BY <2>1 DEF TypeOK
  <2>4. QED
    BY <1>6, <2>2, <2>3 DEF ReadPage, OriginInv
<1>7. CASE ReadPageFails
  <2>1. \A p \in cached \ {page} : data'[p] = data[p]
    BY <1>7 DEF ReadPageFails, TypeOK
  <2>2. QED
    BY <1>7, <2>1 DEF ReadPageFails, OriginInv
<1>8. CASE Exit
  BY <1>8 DEF Exit, OriginInv
<1>9. CASE Device
  BY <1>9 DEF Device, OriginInv
<1>10. CASE UNCHANGED vars
  BY <1>10 DEF vars, OriginInv
<1>11. QED
  BY <1>1, <1>2, <1>3, <1>4, <1>5, <1>6, <1>7, <1>8, <1>9, <1>10 DEF Next

\* Only a write that returns makes a page's content count, and what it wrote
\* has the fields it read.
LEMMA OthersStep ==
    ASSUME TypeOK, ProcessInv, OriginInv, OthersKept, [Next]_vars
    PROVE  OthersKept'
<1>1. spoiled \subseteq spoiled' /\ touched \subseteq touched'
  BY DEF Next, vars, historyVars, Start, GetCached, Emplace, WritePage, Change, GetWritable,
         ReadPage, ReadPageFails, Sync, Written, WriteFails, SyncReturns, Exit, Device
<1>2. CASE UNCHANGED storeVars
  BY <1>1, <1>2 DEF storeVars, OthersKept
<1>3. ASSUME NEW p \in Pages, Store!Begin(p, WithCrc(data[p])) PROVE OthersKept'
  BY <1>1, <1>3 DEF Store!Begin, OthersKept
<1>4. CASE Written /\ Store!EndOk
  <2>1. page \in modified /\ page \in cached /\ pc = "write"
    BY <1>4 DEF Written, ProcessInv
  <2>2. store' = store /\ exposed' = exposed \ {page} /\ store[page] = data[page]
    BY <1>4, <2>1 DEF Store!EndOk, ProcessInv
  <2>3. page \notin spoiled => page \notin unread
    BY <2>1 DEF OriginInv
  <2>4. \A f \in Fields : page \notin spoiled /\ <<page, f>> \notin touched
                           => store[page].fields[f] = Origin
    BY <2>1, <2>2, <2>3 DEF OriginInv
  <2>5. QED
    BY <1>1, <2>2, <2>4 DEF OthersKept
<1>5. CASE Store!EndFailed
  BY <1>1, <1>5 DEF Store!EndFailed, OthersKept
<1>6. ASSUME NEW p \in exposed, NEW c \in Content \cup {Damaged}, Store!Change(p, c)
      PROVE  OthersKept'
  BY <1>1, <1>6 DEF Store!Change, TypeOK, OthersKept
<1>7. QED
  BY <1>2, <1>3, <1>4, <1>5, <1>6, StoreSteps

\* sync () writes whole pages but loses none of the fields that were not
\* changed, whatever writes failed and whatever processes ended in the middle.
THEOREM OtherFieldsKept == Spec => []OthersKept
<1>1. TypeOK /\ ProcessInv /\ ExposedInv /\ [Next]_vars => ExposedInv'
  BY ExposedStep
<1>2. TypeOK /\ ProcessInv /\ ExposedInv /\ OriginInv /\ OthersKept /\ [Next]_vars
         => OriginInv' /\ OthersKept'
  BY OriginStep, OthersStep
<1>3. QED
  BY <1>1, <1>2, ExposedInit, OriginInit, ProcessCorrect, PTL DEF Spec

=============================================================================
