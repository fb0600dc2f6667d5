------------------------------ MODULE DataStore -----------------------------
(***************************************************************************)
(* ChromiumDataStore: which storage (cookies, cache, localStorage) the     *)
(* browser of a view works on, and what of it outlives the process         *)
(* (ChromiumView.mm, ChromiumApplication.mm).                              *)
(*                                                                         *)
(* A store names a request context that its first view creates; CEF        *)
(* (external) keeps the data of a context in memory or under its cache     *)
(* path, gives a popup the context of its opener, and has one global       *)
(* context for the rest.  What is written is told apart by its author: the *)
(* store the host believes it wrote to.                                    *)
(*                                                                         *)
(* The process is started, quits in good order and is started again with   *)
(* the same configuration.                                                 *)
(***************************************************************************)
EXTENDS Naturals, Sequences

CONSTANTS
    Stores,       \* store objects, over all launches
    Views,        \* views of one launch
    Identifiers,  \* what the host names stores by: sequences of characters
    Alphanumeric, \* the characters a path component keeps
    Profile,      \* "profile", the component of an identifier without any
    None          \* no store, no view

ASSUME IdentifiersAssumption ==
    /\ \A id \in Identifiers \cup {Profile} : id \in Seq(STRING)
    /\ Profile # <<>>
ASSUME NoneAssumption == None \notin Stores \cup Views

VARIABLES
    rooted,      \* the configuration has a cachePath
    initialized, \* g_root_cache_path is set and CEF is up
    store,       \* store -> _cachePath, _isDefault, _persistent, _context
    view,        \* view -> _dataStore, and the storage its browser works on
    data,        \* who has written where
    recent,      \* ghost: the authors that wrote in this launch
    promised     \* ghost: the authors that isPersistent promised survival

dataVars == <<rooted, initialized, store, view, data, recent, promised>>

-----------------------------------------------------------------------------
Global == [kind |-> "global", at |-> <<>>]
Disk(path) == [kind |-> "disk", at |-> path]
Memory(context) == [kind |-> "memory", at |-> <<context>>]
NoStorage == [kind |-> "none", at |-> <<>>]

\* The identifier as one path component under root/Profiles.
Component(id) ==
    IF id = <<>> THEN Profile
    ELSE [i \in DOMAIN id |-> IF id[i] \in Alphanumeric THEN id[i] ELSE "_"]

\* Authors: the default store, an identifier that lasts, one object in memory.
Default == <<"default">>
Identified(id) == <<"identified", id>>
Instance(s) == <<"instance", s>>

Unmade == [life |-> "unmade", isDefault |-> FALSE, path |-> <<>>, persistent |-> FALSE,
           context |-> None, author |-> Default]
Unborn == [life |-> "unborn", store |-> None, storage |-> NoStorage, author |-> Default,
           lasting |-> FALSE]

DataInit ==
    /\ rooted \in BOOLEAN /\ initialized = FALSE
    /\ store = [s \in Stores |-> Unmade]
    /\ view = [v \in Views |-> Unborn]
    /\ data = {} /\ recent = {} /\ promised = {}

-----------------------------------------------------------------------------
(***************************************************************************)
(* The host: runs the application, makes stores, makes views of them.      *)
(***************************************************************************)
\* runWithConfiguration: of the two paths CEF takes only root_cache_path is set.
RunWithConfiguration ==
    /\ ~initialized
    /\ initialized' = TRUE
    /\ UNCHANGED <<rooted, store, view, data, recent, promised>>

Make(s, fields) ==
    /\ store[s].life = "unmade"
    /\ store' = [store EXCEPT ![s] = fields]
    /\ UNCHANGED <<rooted, initialized, view, data, recent, promised>>

DefaultStore(s) ==
    Make(s, [Unmade EXCEPT !.life = "made", !.isDefault = TRUE, !.persistent = TRUE])

InMemory(s) == [Unmade EXCEPT !.life = "made", !.author = Instance(s)]

NonPersistentStore(s) == Make(s, InMemory(s))

\* Without a root path, and before there is one, the store is kept in memory.
StoreForIdentifier(s, id) ==
    Make(s, IF initialized /\ rooted
            THEN [Unmade EXCEPT !.life = "made", !.path = Component(id),
                                !.persistent = TRUE, !.author = Identified(id)]
            ELSE InMemory(s))

\* initWithFrame:URL:dataStore:, with a store or without.
NewView(v, s) ==
    /\ view[v].life = "unborn"
    /\ s = None \/ (s # None /\ store[s].life = "made")
    /\ view' = [view EXCEPT ![v] =
           [@ EXCEPT !.life = "new", !.store = s,
                     !.author = IF s = None THEN Default ELSE store[s].author,
                     !.lasting = s # None /\ store[s].persistent]]
    /\ UNCHANGED <<rooted, initialized, store, data, recent, promised>>

\* The host lets the store go; a view that has it keeps it.
ReleaseStore(s) ==
    /\ store[s].life = "made"
    /\ store' = [store EXCEPT ![s].life = "released"]
    /\ UNCHANGED <<rooted, initialized, view, data, recent, promised>>

-----------------------------------------------------------------------------
(***************************************************************************)
(* Browsers.                                                               *)
(***************************************************************************)
StorageOf(s, context) == IF store[s].path = <<>> THEN Memory(context) ELSE Disk(store[s].path)

\* Mutant: every view creates a context.
EnsureRequestContextAlways(s, v) ==
    /\ store' = [store EXCEPT ![s].context = IF store[s].isDefault THEN @ ELSE v]
    /\ view' = [view EXCEPT ![v].storage =
           IF store[s].isDefault THEN Global ELSE StorageOf(s, v)]

\* _ensureRequestContext: a context is known by the view it was created for.
EnsureRequestContext(s, v) ==
    LET context == IF store[s].context = None THEN v ELSE store[s].context
    IN  IF store[s].isDefault
        THEN /\ UNCHANGED store
             /\ view' = [view EXCEPT ![v].storage = Global]
        ELSE /\ store' = [store EXCEPT ![s].context = context]
             /\ view' = [view EXCEPT ![v].storage = StorageOf(s, context)]

\* _createBrowserIfReady, once per view.
CreateBrowserIfReady(v) ==
    /\ initialized /\ view[v].life = "new" /\ view[v].storage = NoStorage
    /\ IF view[v].store = None
       THEN /\ UNCHANGED store
            /\ view' = [view EXCEPT ![v].storage = Global]
       ELSE EnsureRequestContext(view[v].store, v)
    /\ UNCHANGED <<rooted, initialized, data, recent, promised>>

\* Mutant: the view of a popup makes a browser of its own, without a store.
OnBeforePopupAnew(opener, v) ==
    /\ view[opener].life = "new" /\ view[opener].storage # NoStorage
    /\ view[v].life = "unborn"
    /\ view' = [view EXCEPT ![v] = [view[opener] EXCEPT !.store = None, !.storage = Global]]
    /\ UNCHANGED <<rooted, initialized, store, data, recent, promised>>

\* A view that takes a popup has no store; CEF gives its browser the opener's
\* context.
OnBeforePopup(opener, v) ==
    /\ view[opener].life = "new" /\ view[opener].storage # NoStorage
    /\ view[v].life = "unborn"
    /\ view' = [view EXCEPT ![v] = [view[opener] EXCEPT !.store = None]]
    /\ UNCHANGED <<rooted, initialized, store, data, recent, promised>>

\* A page writes.
Write(v) ==
    /\ view[v].life = "new" /\ view[v].storage # NoStorage
    /\ data' = data \cup {[in |-> view[v].storage, by |-> view[v].author]}
    /\ recent' = recent \cup {view[v].author}
    /\ promised' = promised \cup (IF view[v].lasting THEN {view[v].author} ELSE {})
    /\ UNCHANGED <<rooted, initialized, store, view>>

Dealloc(v) ==
    /\ view[v].life = "new"
    /\ view' = [view EXCEPT ![v].life = "gone"]
    /\ UNCHANGED <<rooted, initialized, store, data, recent, promised>>

\* The process quits and is started again: what is under a cache path is there,
\* memory and the global context, which has no cache path, are empty.
Relaunch ==
    /\ initialized
    /\ initialized' = FALSE
    /\ store' = [s \in Stores |-> IF store[s].life = "unmade" THEN Unmade
                                  ELSE [Unmade EXCEPT !.life = "released"]]
    /\ view' = [v \in Views |-> Unborn]
    /\ data' = {w \in data : w.in.kind = "disk"}
    /\ recent' = {}
    /\ UNCHANGED <<rooted, promised>>

DataNext ==
    \/ RunWithConfiguration \/ Relaunch
    \/ \E s \in Stores :
          \/ DefaultStore(s) \/ NonPersistentStore(s) \/ ReleaseStore(s)
          \/ \E id \in Identifiers : StoreForIdentifier(s, id)
    \/ \E v \in Views :
          \/ \E s \in Stores \cup {None} : NewView(v, s)
          \/ CreateBrowserIfReady(v) \/ Write(v) \/ Dealloc(v)
          \/ \E opener \in Views : OnBeforePopup(opener, v)

DataSpec == DataInit /\ [][DataNext]_dataVars

-----------------------------------------------------------------------------
(***************************************************************************)
(* Properties.                                                             *)
(***************************************************************************)
DataTypeOK ==
    /\ rooted \in BOOLEAN /\ initialized \in BOOLEAN
    /\ \A s \in Stores :
          /\ store[s].life \in {"unmade", "made", "released"}
          /\ store[s].context \in Views \cup {None}
    /\ \A v \in Views :
          /\ view[v].life \in {"unborn", "new", "gone"}
          /\ view[v].store \in Stores \cup {None}
    /\ promised \subseteq {Default} \cup {Identified(id) : id \in Identifiers}

\* Two authors one storage may hold: an identifier stands for its component.
MayShare(a, b) ==
    \/ a = b
    \/ a[1] = "identified" /\ b[1] = "identified" /\ Component(a[2]) = Component(b[2])

HasBrowser(v) == view[v].life = "new" /\ view[v].storage # NoStorage

\* Stores are isolated from one another: no page, in a popup or after a
\* relaunch either, sees what was written through another store, unless the
\* path components of the two identifiers agree; and what an object keeps in
\* memory never touches the disk.
Isolated ==
    \A w \in data :
        /\ \A v \in Views : HasBrowser(v) /\ view[v].storage = w.in => MayShare(view[v].author, w.by)
        /\ w.in.kind = "disk" => w.by[1] = "identified"

Sees(v) == [in |-> view[v].storage, by |-> view[v].author] \in data

\* Whatever was written through a store in this launch, and through an
\* identified store with a path in any earlier one, is there for every later
\* view of that store, whichever object, view or popup wrote it and whether
\* that is gone by now.
StoresKeepData ==
    \A v \in Views : HasBrowser(v) =>
        (view[v].author \in recent \cup (promised \ {Default}) => Sees(v))

\* "YES if data written through this store survives a process restart (the
\* `default` store, and ...)" (ChromiumViewObjC.h:279): not so for the default
\* store, whose context has no cache path.
PersistentSurvives ==
    \A v \in Views : HasBrowser(v) => (view[v].author \in promised => Sees(v))

=============================================================================
