---------------------------- MODULE MemoryMapping ----------------------------
(***************************************************************************)
(* HIDPP::AbstractMemoryMapping (hidpp/AbstractMemoryMapping.cpp): a write- *)
(* back cache of the device's pages.  A page is read when it is first asked *)
(* for, changed in the cache, and written, with its CRC, by sync ().  The   *)
(* device is a PageStore: writePage is its Begin, ..., EndOk or EndFailed.  *)
(*                                                                          *)
(* A page is some fields and a CRC: TRUE when the CRC is that of the fields.*)
(***************************************************************************)
EXTENDS Integers

CONSTANTS
    Pages,        \* page addresses, in the order of the map
    Fields,       \* parts of a page that are changed separately
    Values,       \* of a field
    Origin,       \* the value of every field at the start
    Zero,         \* a byte that resize () put in the vector
    WriteCrc,     \* _write_crc: FALSE for RAMMapping
    MaxProcesses, \* bound: processes that open the device
    Damaged,      \* content of a page that is neither the old nor the new one
    None          \* no page, no write in progress

ASSUME PagesAreOrdered == Pages \subseteq Int
ASSUME TokenAssumption ==
    /\ Origin \in Values
    /\ Zero \notin Values
    /\ Damaged \notin [fields : [Fields -> Values \cup {Zero}], crc : BOOLEAN]
    /\ None \notin Pages
    /\ None \notin [page : Pages, data : [fields : [Fields -> Values \cup {Zero}], crc : BOOLEAN]]
    /\ WriteCrc \in BOOLEAN

VARIABLES
    store,    \* the device's pages
    job,      \* the page write in progress
    exposed,  \* pages whose last write has not returned
    process,  \* processes that were started
    pc,       \* where the process is, or how its last call ended
    page,     \* the page getPage reads, has returned, or sync is at
    cached,   \* _pages: the addresses in the map
    data,     \* Page::data
    modified, \* Page::modified
    unread,   \* cached pages that readPage has not filled (history)
    spoiled,  \* pages that were read with an error, or not whole (history)
    touched,  \* fields changed through the mapping (history)
    inherited \* pages that an earlier process left unwritten (history)

storeVars == <<store, job, exposed>>
cacheVars == <<cached, data, modified>>
historyVars == <<unread, spoiled, touched, inherited>>
vars == <<storeVars, process, pc, page, cacheVars, historyVars>>

-----------------------------------------------------------------------------
Content == [fields : [Fields -> Values \cup {Zero}], crc : BOOLEAN]
\* The page that resize makes.
Zeros == [fields |-> [f \in Fields |-> Zero], crc |-> FALSE]

Store == INSTANCE PageStore WITH Data <- Content, NoJob <- None

\* What a successful read of a page gives: its bytes, whatever they are.
Bytes(p) == IF store[p] = Damaged THEN Zeros ELSE store[p]

Init ==
    /\ store = [p \in Pages |-> [fields |-> [f \in Fields |-> Origin], crc |-> TRUE]]
    /\ job = None
    /\ exposed = {}
    /\ process = 0
    /\ pc = "down"
    /\ page = None
    /\ cached = {}
    /\ data = [p \in {} |-> Zeros]
    /\ modified = {}
    /\ unread = {}
    /\ spoiled = {}
    /\ touched = {}
    /\ inherited = {}

-----------------------------------------------------------------------------
Start ==
    /\ pc = "down"
    /\ process < MaxProcesses
    /\ process' = process + 1
    /\ pc' = "idle"
    /\ UNCHANGED <<storeVars, page, cacheVars, historyVars>>

\* The caller is in none of the mapping's functions.
Idle == pc \in {"idle", "got", "writable", "synced", "threw"}

\* getPage of a page that is in the map.
GetCached(p) ==
    /\ Idle
    /\ p \in cached
    /\ pc' = "got"
    /\ page' = p
    /\ UNCHANGED <<storeVars, process, cacheVars, historyVars>>

\* Faulty variant: a page that is about to be written is not read.
EmplaceUnread(p) ==
    /\ Idle
    /\ p \notin cached
    /\ pc' = "got"
    /\ page' = p
    /\ cached' = cached \cup {p}
    /\ data' = [q \in cached \cup {p} |-> IF q = p THEN Zeros ELSE data[q]]
    /\ UNCHANGED <<storeVars, process, modified, historyVars>>
\* getPage of another: an entry is made, then readPage fills it.
Emplace(p) ==
    /\ Idle
    /\ p \notin cached
    /\ pc' = "read"
    /\ page' = p
    /\ cached' = cached \cup {p}
    /\ data' = [q \in cached \cup {p} |-> IF q = p THEN Zeros ELSE data[q]]
    /\ unread' = unread \cup {p}
    /\ UNCHANGED <<storeVars, process, modified, spoiled, touched, inherited>>

ReadPage ==
    /\ pc = "read"
    /\ pc' = "got"
    /\ data' = [data EXCEPT ![page] = Bytes(page)]
    /\ unread' = unread \ {page}
    /\ spoiled' = IF page \in exposed THEN spoiled \cup {page} ELSE spoiled
    /\ UNCHANGED <<storeVars, process, page, cached, modified, touched, inherited>>

\* A request of readPage fails, with some fields read and not the others.
ReadPageFails ==
    /\ pc = "read"
    /\ pc' = "threw"
    /\ page' = None
    /\ \E read \in SUBSET Fields :
         data' = [data EXCEPT ![page].fields =
                    [f \in Fields |-> IF f \in read THEN Bytes(page).fields[f]
                                                    ELSE @[f]]]
    /\ spoiled' = spoiled \cup {page}
    /\ UNCHANGED <<storeVars, process, cached, modified, unread, touched, inherited>>

\* The call was getWritablePage, which marks the page.
GetWritable ==
    /\ pc = "got"
    /\ pc' = "writable"
    /\ modified' = modified \cup {page}
    /\ UNCHANGED <<storeVars, process, page, cached, data, historyVars>>

\* The caller changes a field of the page it was given.  The CRC no longer fits.
Change(f, v) ==
    /\ pc = "writable"
    /\ data[page].fields[f] # v
    /\ data' = [data EXCEPT ![page] = [fields |-> [@.fields EXCEPT ![f] = v],
                                       crc |-> FALSE]]
    /\ touched' = touched \cup {<<page, f>>}
    /\ UNCHANGED <<storeVars, process, pc, page, cached, modified, unread, spoiled,
                   inherited>>

Sync ==
    /\ Idle
    /\ pc' = "sync"
    /\ page' = None
    /\ UNCHANGED <<storeVars, process, cacheVars, historyVars>>

\* The loop of sync: the first modified page after the one it is at.
Remaining == {p \in modified : page = None \/ p > page}
IsNext(p) == p \in Remaining /\ \A q \in Remaining : p <= q

WithCrc(content) == IF WriteCrc THEN [content EXCEPT !.crc = TRUE] ELSE content

\* Faulty variant: the page counts as written before writePage.
WriteClearedFirst(p) ==
    /\ pc = "sync"
    /\ IsNext(p)
    /\ pc' = "write"
    /\ page' = p
    /\ data' = [data EXCEPT ![p] = WithCrc(@)]
    /\ modified' = modified \ {p}
    /\ Store!Begin(p, WithCrc(data[p]))
    /\ inherited' = inherited \ {p}
    /\ UNCHANGED <<process, cached, unread, spoiled, touched>>
WritePage(p) ==
    /\ pc = "sync"
    /\ IsNext(p)
    /\ pc' = "write"
    /\ page' = p
    /\ data' = [data EXCEPT ![p] = WithCrc(@)]
    /\ Store!Begin(p, WithCrc(data[p]))
    /\ inherited' = inherited \ {p}
    /\ UNCHANGED <<process, cached, modified, unread, spoiled, touched>>

Written ==
    /\ pc = "write"
    /\ Store!EndOk
    /\ pc' = "sync"
    /\ modified' = modified \ {page}
    /\ UNCHANGED <<process, page, cached, data, historyVars>>

\* writePage throws, out of sync.
WriteFails ==
    /\ pc = "write"
    /\ Store!EndFailed
    /\ pc' = "threw"
    /\ page' = None
    /\ UNCHANGED <<process, cacheVars, historyVars>>

SyncReturns ==
    /\ pc = "sync"
    /\ Remaining = {}
    /\ pc' = "synced"
    /\ page' = None
    /\ UNCHANGED <<storeVars, process, cacheVars, historyVars>>

\* The process ends, anywhere.
Exit ==
    /\ pc # "down"
    /\ IF job = None THEN UNCHANGED storeVars ELSE Store!EndFailed
    /\ pc' = "down"
    /\ page' = None
    /\ cached' = {}
    /\ data' = [p \in {} |-> Zeros]
    /\ modified' = {}
    /\ unread' = {}
    /\ inherited' = exposed
    /\ UNCHANGED <<process, spoiled, touched>>

\* The device works on the write: the page is erased, then filled.  It may
\* still erase a page, or change a part of it, when the writer has given up.
Device ==
    /\ \/ \E p \in exposed : Store!Change(p, Damaged)
       \/ job # None /\ Store!Change(job.page, job.data)
    /\ UNCHANGED <<process, pc, page, cacheVars, historyVars>>

Next ==
    \/ Start
    \/ \E p \in Pages : GetCached(p) \/ Emplace(p) \/ WritePage(p)
    \/ \E f \in Fields, v \in Values : Change(f, v)
    \/ GetWritable
    \/ ReadPage
    \/ ReadPageFails
    \/ Sync
    \/ Written
    \/ WriteFails
    \/ SyncReturns
    \/ Exit
    \/ Device

Spec == Init /\ [][Next]_vars

-----------------------------------------------------------------------------
(* Properties. *)

\* Pages that a process which ended still may change.
Unsettled == exposed \cap inherited

\* The cache is coherent with the device: a page that was read is in the cache
\* as it is on the device, at any time while it is not modified, and when sync
\* returns, after however many calls of it that failed, whatever was changed;
\* the damage of the failed ones is repaired.
CacheIsStored ==
    \A p \in cached \ (unread \cup Unsettled) :
        p \notin modified \/ pc = "synced" => data[p] = Bytes(p)

\* sync writes whole pages, but changes on the device only the fields that
\* were changed through the mapping, by whatever process: unless a read of the
\* page failed, or met it half written, the other fields stay as they were.
OthersKept ==
    \A p \in Pages \ (exposed \cup spoiled), f \in Fields :
        <<p, f>> \notin touched => store[p].fields[f] = Origin
=============================================================================
