------------------------- MODULE WorkspaceStoreProofs -------------------------
(***************************************************************************)
(* Proofs about WorkspaceStore: its invariants and that it implements      *)
(* DurableCatalog, for every set of ids and paths, any number of           *)
(* conversations, and writes that fail or not.                             *)
(*                                                                         *)
(* The inductive invariant says of every stage of an operation what the    *)
(* steps before it have established and what the ones after it rely on.    *)
(***************************************************************************)
EXTENDS WorkspaceStore, TLAPS

(* A catalog that may be in memory or on the disk. *)
Good(cat) ==
  /\ cat \in Abstract!Catalog
  /\ cat.active \in Known(cat) \cup {None}
  /\ \A v, w \in Known(cat) : v # w => cat.recs[v].path # cat.recs[w].path

(* The stages at which the operation has changed the catalog in memory. *)
Changing == op.at \in {"meta", "catalog"}

OpFits ==
  /\ op.at \in {"meta", "file", "forget", "remove"} => op.id \in Known(mem)
  /\ op.at = "remove" => op.id # mem.active /\ dir[op.id] = None

Kept ==
  /\ ~Changing => mem = acked
  /\ ~lost => catalog = acked

Dirs ==
  \A w \in Ids \ torn :
    ~(op.at = "remove" /\ w = op.id) => (dir[w] # None <=> w \in Known(mem))

Sessions ==
  \A w \in Known(mem) \ torn :
    /\ ~(op.at \in {"forget", "remove"} /\ w = op.id)
    /\ mem.recs[w].session # None
    => mem.recs[w].session = dir[w]

IInv ==
  /\ TypeOK
  /\ Good(mem) /\ Good(catalog)
  /\ Known(mem) \cup Known(catalog) \subseteq used
  /\ OpFits
  /\ Kept
  /\ Dirs
  /\ Sessions

-----------------------------------------------------------------------------
(* Catalogs.                                                               *)

USE WorkspaceStoreAssumption

Entry == [path : Paths, session : Talks \cup {None}]

LEMMA NoneApart ==
  None \notin Ids /\ None \notin Paths /\ None \notin Talks /\ None \notin Entry
  <1>1. Talks \subseteq Nat
    BY DEF Talks
  <1>2. Entry \subseteq [path : Paths, session : Nat \cup {None}]
    BY <1>1 DEF Entry
  <1> QED BY <1>1, <1>2

(* What it takes to be a catalog. *)
LEMMA CatalogIntro ==
  ASSUME NEW a \in Ids \cup {None}, NEW S \in SUBSET Ids, NEW f \in [S -> Entry]
  PROVE  [active |-> a, recs |-> f] \in Abstract!Catalog
  <1>1. [S -> Entry] \in {[T -> Entry] : T \in SUBSET Ids}
    OBVIOUS
  <1>2. f \in UNION {[T -> Entry] : T \in SUBSET Ids}
    BY <1>1
  <1> QED BY <1>2 DEF Abstract!Catalog, Abstract!Entry, Entry

LEMMA CatalogElim ==
  ASSUME NEW c \in Abstract!Catalog
  PROVE  /\ c = [active |-> c.active, recs |-> c.recs]
         /\ c.active \in Ids \cup {None}
         /\ Known(c) \in SUBSET Ids
         /\ c.recs \in [Known(c) -> Entry]
  <1>1. c.recs \in UNION {[T -> Entry] : T \in SUBSET Ids}
    BY DEF Abstract!Catalog, Abstract!Entry, Entry
  <1>2. PICK T \in SUBSET Ids : c.recs \in [T -> Entry]
    BY <1>1
  <1>3. Known(c) = T
    BY <1>2 DEF Known, Abstract!Known
  <1>4. c = [active |-> c.active, recs |-> c.recs] /\ c.active \in Ids \cup {None}
    BY DEF Abstract!Catalog
  <1> QED BY <1>2, <1>3, <1>4

LEMMA EmptyCatalog ==
  /\ Good(Abstract!Empty)
  /\ Known(Abstract!Empty) = {}
  <1>1. [w \in {} |-> None] \in [{} -> Entry]
    OBVIOUS
  <1>2. Abstract!Empty \in Abstract!Catalog
    BY <1>1, CatalogIntro DEF Abstract!Empty
  <1>3. Known(Abstract!Empty) = {} /\ Abstract!Empty.active = None
    BY DEF Known, Abstract!Known, Abstract!Empty
  <1> QED BY <1>2, <1>3 DEF Good

LEMMA WithEntryFacts ==
  ASSUME NEW c \in Abstract!Catalog, NEW w \in Ids, NEW e \in Entry
  PROVE  LET n == WithEntry(c, w, e) IN
           /\ n \in Abstract!Catalog
           /\ n.active = c.active
           /\ Known(n) = Known(c) \cup {w}
           /\ n.recs[w] = e
           /\ \A v \in Known(c) \ {w} : n.recs[v] = c.recs[v]
  <1> DEFINE f == [v \in Known(c) \cup {w} |-> IF v = w THEN e ELSE c.recs[v]]
             n == WithEntry(c, w, e)
  <1>1. f \in [Known(c) \cup {w} -> Entry]
    BY CatalogElim
  <1>2. n = [active |-> c.active, recs |-> f]
    BY CatalogElim DEF WithEntry, Abstract!WithEntry, Known
  <1>3. n \in Abstract!Catalog
    BY <1>1, <1>2, CatalogElim, CatalogIntro
  <1>4. Known(n) = Known(c) \cup {w} /\ n.recs = f /\ n.active = c.active
    BY <1>2 DEF Known, Abstract!Known
  <1> QED BY <1>3, <1>4

LEMMA WithoutEntryFacts ==
  ASSUME NEW c \in Abstract!Catalog, NEW w
  PROVE  LET n == WithoutEntry(c, w) IN
           /\ n \in Abstract!Catalog
           /\ n.active = c.active
           /\ Known(n) = Known(c) \ {w}
           /\ \A v \in Known(c) \ {w} : n.recs[v] = c.recs[v]
  <1> DEFINE f == [v \in Known(c) \ {w} |-> c.recs[v]]
             n == WithoutEntry(c, w)
  <1>1. f \in [Known(c) \ {w} -> Entry]
    BY CatalogElim
  <1>2. n = [active |-> c.active, recs |-> f]
    BY CatalogElim DEF WithoutEntry, Abstract!WithoutEntry, Known
  <1>3. n \in Abstract!Catalog
    BY <1>1, <1>2, CatalogElim, CatalogIntro
  <1>4. Known(n) = Known(c) \ {w} /\ n.recs = f /\ n.active = c.active
    BY <1>2 DEF Known, Abstract!Known
  <1> QED BY <1>3, <1>4

LEMMA ActiveFacts ==
  ASSUME NEW c \in Abstract!Catalog, NEW a \in Ids \cup {None}
  PROVE  LET n == [c EXCEPT !.active = a] IN
           /\ n \in Abstract!Catalog
           /\ n.active = a
           /\ Known(n) = Known(c)
           /\ n.recs = c.recs
  <1>1. [c EXCEPT !.active = a] = [active |-> a, recs |-> c.recs]
    BY CatalogElim
  <1>2. [active |-> a, recs |-> c.recs] \in Abstract!Catalog
    BY CatalogElim, CatalogIntro
  <1> QED BY <1>1, <1>2 DEF Known, Abstract!Known

(* The four ways an operation changes a catalog leave it a good one.       *)

LEMMA GoodAdded ==
  ASSUME NEW c, Good(c), NEW w \in Ids \ Known(c), NEW p \in Paths,
         \A v \in Known(c) : c.recs[v].path # p
  PROVE  Good(WithEntry(c, w, [path |-> p, session |-> None]))
  <1> DEFINE e == [path |-> p, session |-> None]
             n == WithEntry(c, w, e)
  <1>1. e \in Entry
    BY DEF Entry
  <1>2. /\ n \in Abstract!Catalog
        /\ n.active = c.active
        /\ Known(n) = Known(c) \cup {w}
        /\ n.recs[w] = e
        /\ \A v \in Known(c) \ {w} : n.recs[v] = c.recs[v]
    BY <1>1, WithEntryFacts DEF Good
  <1>3. \A u, v \in Known(n) : u # v => n.recs[u].path # n.recs[v].path
    BY <1>2 DEF Good
  <1> QED BY <1>2, <1>3 DEF Good

LEMMA GoodRemoved ==
  ASSUME NEW c, Good(c), NEW w, w # c.active
  PROVE  Good(WithoutEntry(c, w))
  BY WithoutEntryFacts DEF Good

LEMMA GoodChosen ==
  ASSUME NEW c, Good(c), NEW a \in Known(c) \cup {None}
  PROVE  Good([c EXCEPT !.active = a])
  BY CatalogElim, ActiveFacts DEF Good

LEMMA SessionFacts ==
  ASSUME NEW c, Good(c), NEW w \in Known(c), NEW s \in Talks \cup {None}
  PROVE  LET n == WithSession(c, w, s) IN
           /\ Good(n)
           /\ Known(n) = Known(c)
           /\ n.active = c.active
           /\ n.recs[w].session = s
           /\ \A v \in Known(c) \ {w} : n.recs[v] = c.recs[v]
  <1> DEFINE e == [path |-> c.recs[w].path, session |-> s]
             n == WithSession(c, w, s)
  <1>1. w \in Ids /\ e \in Entry
    <2>1. w \in Ids /\ c.recs[w] \in Entry
      BY CatalogElim DEF Good
    <2> QED BY <2>1 DEF Entry
  <1>2. /\ n \in Abstract!Catalog
        /\ n.active = c.active
        /\ Known(n) = Known(c) \cup {w}
        /\ n.recs[w] = e
        /\ \A v \in Known(c) \ {w} : n.recs[v] = c.recs[v]
    BY <1>1, WithEntryFacts DEF Good, WithSession
  <1>3. \A v \in Known(n) : n.recs[v].path = c.recs[v].path
    BY <1>2
  <1>4. \A u, v \in Known(n) : u # v => n.recs[u].path # n.recs[v].path
    BY <1>2, <1>3 DEF Good
  <1> QED BY <1>2, <1>4 DEF Good

-----------------------------------------------------------------------------
(* Files.                                                                  *)

LEMMA EnsureDirFacts ==
  ASSUME TypeOK, NEW w \in Ids, EnsureDir(w)
  PROVE  /\ dir' \in [Ids -> Talks \cup {None}] /\ talks' \in 0 .. MaxTalks
         /\ dir'[w] # None
         /\ \A v \in Ids : dir[v] # None \/ v # w => dir'[v] = dir[v]
  <1>1. CASE dir[w] # None
    BY <1>1 DEF EnsureDir, TypeOK
  <1>2. CASE dir[w] = None
    <2>1. talks + 1 \in Talks /\ talks' = talks + 1 /\ talks' \in 0 .. MaxTalks
      BY <1>2 DEF EnsureDir, TypeOK, Talks
    <2>2. dir' = [dir EXCEPT ![w] = talks + 1]
      BY <1>2 DEF EnsureDir
    <2> QED BY <1>2, <2>1, <2>2, NoneApart DEF TypeOK
  <1> QED BY <1>1, <1>2

LEMMA PersistFacts ==
  ASSUME NEW new, PersistCatalog(new)
  PROVE  /\ catalog' \in {catalog, new}
         /\ lost' \in BOOLEAN
         /\ lost' = (catalog' # new)
         /\ acked' = new
         /\ op' = Idle
  BY DEF PersistCatalog, AtomicWrite

(* The parts of the invariant, one by one, as a step establishes them.     *)
LEMMA IInvNext ==
  ASSUME TypeOK', Good(mem'), Good(catalog'),
         Known(mem') \subseteq used', Known(catalog') \subseteq used',
         OpFits', Kept', Dirs', Sessions'
  PROVE  IInv'
  BY DEF IInv, Good, Known, Abstract!Known, Abstract!Catalog, Abstract!Entry

LEMMA IInvInit == Init => IInv
  <1> SUFFICES ASSUME Init PROVE IInv
    OBVIOUS
  <1>1. mem = Abstract!Empty /\ catalog = Abstract!Empty /\ acked = Abstract!Empty
    BY DEF Init
  <1>2. Good(mem) /\ Good(catalog) /\ Known(mem) = {} /\ Known(catalog) = {}
    BY <1>1, EmptyCatalog
  <1>3. TypeOK
    <2>1. Abstract!Empty \in Abstract!Catalog
      BY EmptyCatalog DEF Good
    <2>2. 0 \in 0 .. MaxTalks
      OBVIOUS
    <2> QED BY <1>1, <2>1, <2>2 DEF Init, TypeOK, Idle
  <1>4. OpFits /\ Kept
    BY <1>1 DEF Init, OpFits, Kept, Idle, Changing
  <1>5. Dirs /\ Sessions
    BY <1>2 DEF Init, Dirs, Sessions
  <1> QED BY <1>2, <1>3, <1>4, <1>5 DEF IInv

-----------------------------------------------------------------------------
(* Steps.  Each keeps the invariant and is a step of DurableCatalog, or    *)
(* none at all for it.                                                     *)

Step == IInv' /\ [Abstract!Next]_(Abstract!catVars)

LEMMA IInvFacts ==
  ASSUME IInv
  PROVE  /\ TypeOK /\ Good(mem) /\ Good(catalog)
         /\ Known(mem) \subseteq used /\ Known(catalog) \subseteq used
         /\ Known(mem) \subseteq Ids /\ Known(catalog) \subseteq Ids
         /\ OpFits /\ Kept /\ Dirs /\ Sessions
  BY CatalogElim DEF IInv, Good

LEMMA CreateStep == ASSUME IInv, NEW w \in Ids, NEW p \in Paths, Create(w, p) PROVE Step
  <1> USE IInvFacts
  <1> DEFINE n == WithEntry(mem, w, [path |-> p, session |-> None])
  <1>1. w \notin Known(mem) /\ op.at = "idle"
    BY DEF Create, Locked
  <1>2. mem' = n /\ op' = [at |-> "meta", id |-> w] /\ used' = used \cup {w}
    BY DEF Create, Stage
  <1>3. UNCHANGED <<catalog, acked, lost, torn>>
    BY DEF Create, history
  <1>4. \A v \in Known(mem) : mem.recs[v].path # p
    BY DEF Create
  <1>5. Good(n)
    BY <1>1, <1>4, GoodAdded
  <1>6. /\ n \in Abstract!Catalog /\ n.active = mem.active
        /\ Known(n) = Known(mem) \cup {w}
        /\ n.recs[w].session = None
        /\ \A v \in Known(mem) : n.recs[v] = mem.recs[v]
    <2> DEFINE e == [path |-> p, session |-> None]
    <2>1. e \in Entry /\ e.session = None
      BY DEF Entry
    <2>2. mem \in Abstract!Catalog
      BY DEF Good
    <2> HIDE DEF e
    <2>3. /\ n \in Abstract!Catalog /\ n.active = mem.active
          /\ Known(n) = Known(mem) \cup {w} /\ n.recs[w] = e
          /\ \A v \in Known(mem) \ {w} : n.recs[v] = mem.recs[v]
      BY ONLY <2>1, <2>2, w \in Ids, WithEntryFacts DEF e
    <2> QED BY <1>1, <2>1, <2>3
  <1>7. /\ dir' \in [Ids -> Talks \cup {None}] /\ talks' \in 0 .. MaxTalks
        /\ dir'[w] # None
        /\ \A v \in Ids : dir[v] # None \/ v # w => dir'[v] = dir[v]
    BY EnsureDirFacts DEF Create
  <1>8. TypeOK'
    BY <1>2, <1>3, <1>6, <1>7 DEF TypeOK
  <1>9. OpFits' /\ Kept'
    BY <1>2, <1>3, <1>6 DEF OpFits, Kept, Changing
  <1>10. Dirs'
    BY <1>1, <1>2, <1>3, <1>6, <1>7 DEF Dirs
  <1>11. Sessions'
    <2> SUFFICES ASSUME NEW v \in Known(mem') \ torn', mem'.recs[v].session # None
                 PROVE  mem'.recs[v].session = dir'[v]
      BY DEF Sessions
    <2>1. v \in Known(mem) /\ v # w /\ v \in Ids \ torn
      BY <1>1, <1>2, <1>3, <1>6
    <2>2. mem.recs[v].session # None /\ mem.recs[v].session = dir[v]
      BY <1>1, <1>2, <1>6, <2>1 DEF Sessions
    <2> QED BY <1>2, <1>6, <1>7, <2>1, <2>2
  <1>12. IInv'
    BY <1>2, <1>3, <1>5, <1>6, <1>8, <1>9, <1>10, <1>11, IInvNext
  <1>13. Abstract!Change
    <2>1. Abstract!Settled
      BY <1>1 DEF Kept, Changing, Abstract!Settled
    <2>2. Abstract!Added(mem, mem')
      BY <1>1, <1>2, <1>4 DEF Abstract!Added, Known, WithEntry
    <2> QED BY <1>3, <2>1, <2>2 DEF Abstract!Change, Abstract!Changed
  <1> QED BY <1>12, <1>13 DEF Step, Abstract!Next

LEMMA CreateMetaStep == ASSUME IInv, CreateMeta PROVE Step
  <1> USE IInvFacts
  <1>1. op.at = "meta" /\ op.id \in Known(mem) /\ op.id \in Ids
    BY DEF CreateMeta, Locked, OpFits
  <1>2. op' = [at |-> "catalog", id |-> op.id]
    BY DEF CreateMeta, Stage
  <1>3. UNCHANGED <<mem, catalog, used, acked, lost, torn>>
    BY DEF CreateMeta, history
  <1>4. /\ dir' \in [Ids -> Talks \cup {None}] /\ talks' \in 0 .. MaxTalks
        /\ dir'[op.id] # None
        /\ \A v \in Ids : dir[v] # None \/ v # op.id => dir'[v] = dir[v]
    BY <1>1, EnsureDirFacts DEF CreateMeta, PersistMeta
  <1>5. TypeOK'
    BY <1>1, <1>2, <1>3, <1>4 DEF TypeOK
  <1>6. OpFits' /\ Kept'
    BY <1>1, <1>2, <1>3 DEF OpFits, Kept, Changing
  <1>7. Dirs'
    BY <1>1, <1>2, <1>3, <1>4 DEF Dirs
  <1>8. Sessions'
    BY <1>1, <1>2, <1>3, <1>4 DEF Sessions, Dirs
  <1>9. IInv'
    BY <1>3, <1>5, <1>6, <1>7, <1>8, IInvNext
  <1> QED BY <1>3, <1>9 DEF Step, Abstract!catVars

LEMMA FinishStep == ASSUME IInv, Finish PROVE Step
  <1> USE IInvFacts
  <1>1. /\ catalog' \in {catalog, mem} /\ lost' \in BOOLEAN
        /\ lost' = (catalog' # mem) /\ acked' = mem /\ op' = Idle
    BY PersistFacts DEF Finish
  <1>2. op.at = "catalog" /\ UNCHANGED <<mem, dir, used, talks, torn>>
    BY DEF Finish, Locked
  <1>3. TypeOK'
    BY <1>1, <1>2 DEF TypeOK, Idle
  <1>4. OpFits' /\ Kept' /\ Dirs' /\ Sessions'
    BY <1>1, <1>2 DEF OpFits, Kept, Changing, Dirs, Sessions, Idle
  <1>5. IInv'
    BY <1>1, <1>2, <1>3, <1>4, IInvNext
  <1>6. Abstract!Keep \/ Abstract!Lose
    BY <1>1, <1>2 DEF Abstract!Keep, Abstract!Lose
  <1> QED BY <1>5, <1>6 DEF Step, Abstract!Next

LEMMA DeleteStep == ASSUME IInv, NEW w \in Ids, Delete(w) PROVE Step
  <1> USE IInvFacts
  <1>1. op.at = "idle" /\ w \in Known(mem) /\ w # mem.active
    BY DEF Delete, Locked, MayDelete
  <1>2. /\ op' = [at |-> "remove", id |-> w]
        /\ dir' = [dir EXCEPT ![w] = None]
        /\ UNCHANGED <<mem, catalog, used, talks, acked, lost, torn>>
    BY DEF Delete, Stage, history
  <1>3. TypeOK'
    BY <1>2 DEF TypeOK
  <1>4. OpFits' /\ Kept'
    <2>1. dir'[w] = None
      BY <1>2 DEF TypeOK
    <2> QED BY <1>1, <1>2, <2>1 DEF OpFits, Kept, Changing
  <1>5. \A v \in Ids \ {w} : dir'[v] = dir[v]
    BY <1>2 DEF TypeOK
  <1>6. Dirs'
    BY <1>1, <1>2, <1>5 DEF Dirs
  <1>7. Sessions'
    BY <1>1, <1>2, <1>5 DEF Sessions
  <1>8. IInv'
    BY <1>2, <1>3, <1>4, <1>6, <1>7, IInvNext
  <1> QED BY <1>2, <1>8 DEF Step, Abstract!catVars

LEMMA RemoveStep == ASSUME IInv, Remove PROVE Step
  <1> USE IInvFacts
  <1> DEFINE n == WithoutEntry(mem, op.id)
  <1>1. op.at = "remove" /\ op.id \in Known(mem) /\ op.id # mem.active
    BY DEF Remove, Locked, OpFits
  <1>2. /\ catalog' \in {catalog, n} /\ lost' \in BOOLEAN
        /\ lost' = (catalog' # n) /\ acked' = n /\ op' = Idle
    BY PersistFacts DEF Remove
  <1>3. mem' = n /\ UNCHANGED <<dir, used, talks, torn>>
    BY DEF Remove
  <1>4. /\ n \in Abstract!Catalog /\ Known(n) = Known(mem) \ {op.id}
        /\ \A v \in Known(n) : n.recs[v] = mem.recs[v]
    BY WithoutEntryFacts DEF Good
  <1>5. Good(n)
    BY <1>1, GoodRemoved
  <1>6. TypeOK'
    BY <1>2, <1>3, <1>4 DEF TypeOK, Idle
  <1>7. OpFits' /\ Kept'
    BY <1>2, <1>3 DEF OpFits, Kept, Changing, Idle
  <1>8. Dirs'
    <2> SUFFICES ASSUME NEW v \in Ids \ torn PROVE dir[v] # None <=> v \in Known(n)
      BY <1>3 DEF Dirs
    <2>1. CASE v = op.id
      <3>1. dir[op.id] = None
        BY <1>1 DEF OpFits
      <3> QED BY <2>1, <3>1, <1>4
    <2>2. CASE v # op.id
      BY <2>2, <1>4 DEF Dirs
    <2> QED BY <2>1, <2>2
  <1>9. Sessions'
    BY <1>1, <1>2, <1>3, <1>4 DEF Sessions, Idle
  <1>10. IInv'
    BY <1>2, <1>3, <1>4, <1>5, <1>6, <1>7, <1>8, <1>9, IInvNext
  <1>11. Abstract!Change
    <2>1. Abstract!Settled
      BY <1>1 DEF Kept, Changing, Abstract!Settled
    <2>2. Abstract!Removed(mem, mem')
      BY <1>1, <1>3 DEF Abstract!Removed, Known, WithoutEntry
    <2> QED BY <1>2, <1>3, <2>1, <2>2 DEF Abstract!Change, Abstract!Changed
  <1> QED BY <1>10, <1>11 DEF Step, Abstract!Next

LEMMA SetActiveStep == ASSUME IInv, NEW w \in Ids, SetActive(w) PROVE Step
  <1> USE IInvFacts
  <1>1. op.at = "idle" /\ w \in Known(mem)
    BY DEF SetActive, Locked
  <1>2. /\ op' = [at |-> "file", id |-> w]
        /\ UNCHANGED <<mem, catalog, used, acked, lost, torn>>
    BY DEF SetActive, Stage, history
  <1>3. /\ dir' \in [Ids -> Talks \cup {None}] /\ talks' \in 0 .. MaxTalks
        /\ dir'[w] # None
        /\ \A v \in Ids : dir[v] # None \/ v # w => dir'[v] = dir[v]
    BY EnsureDirFacts DEF SetActive, PersistMeta
  <1>4. TypeOK'
    BY <1>2, <1>3 DEF TypeOK
  <1>5. OpFits' /\ Kept'
    BY <1>1, <1>2 DEF OpFits, Kept, Changing
  <1>6. Dirs'
    BY <1>1, <1>2, <1>3 DEF Dirs
  <1>7. Sessions'
    BY <1>1, <1>2, <1>3 DEF Sessions, Dirs
  <1>8. IInv'
    BY <1>2, <1>4, <1>5, <1>6, <1>7, IInvNext
  <1> QED BY <1>2, <1>8 DEF Step, Abstract!catVars

(* The active workspace changes in memory, at a stage before the catalog.  *)
LEMMA ChosenStep ==
  ASSUME IInv, NEW a \in Known(mem) \cup {None}, op.at \in {"idle", "file"},
         mem' = [mem EXCEPT !.active = a], op' = [at |-> "catalog", id |-> a],
         UNCHANGED <<catalog, dir, used, talks, acked, lost, torn>>
  PROVE  Step
  <1> USE IInvFacts
  <1>1. /\ mem' \in Abstract!Catalog /\ Known(mem') = Known(mem) /\ mem'.recs = mem.recs
    BY ActiveFacts DEF Good
  <1>2. Good(mem')
    BY GoodChosen
  <1>3. TypeOK'
    BY <1>1 DEF TypeOK
  <1>4. OpFits' /\ Kept'
    BY DEF OpFits, Kept, Changing
  <1>5. Dirs' /\ Sessions'
    BY <1>1 DEF Dirs, Sessions
  <1>6. IInv'
    BY <1>1, <1>2, <1>3, <1>4, <1>5, IInvNext
  <1>7. Abstract!Change
    <2>1. Abstract!Settled
      BY DEF Kept, Changing, Abstract!Settled
    <2>2. Abstract!Chosen(mem, mem')
      BY DEF Abstract!Chosen, Known
    <2> QED BY <2>1, <2>2 DEF Abstract!Change, Abstract!Changed
  <1> QED BY <1>6, <1>7 DEF Step, Abstract!Next

LEMMA ActiveFileStep == ASSUME IInv, ActiveFile PROVE Step
  <1>1. op.at = "file" /\ op.id \in Known(mem)
    BY IInvFacts DEF ActiveFile, Locked, OpFits
  <1> QED BY <1>1, ChosenStep DEF ActiveFile, Stage, history

LEMMA DeactivateStep == ASSUME IInv, Deactivate PROVE Step
  BY ChosenStep DEF Deactivate, Locked, Stage, history

(* A session of the conversation that goes on, or none, is put in a record,*)
(* and its directory is there.                                             *)
LEMMA SavedStep ==
  ASSUME IInv, NEW w \in Known(mem), NEW s \in Talks \cup {None},
         (op.at = "idle" /\ s = dir[w]) \/ (op.at = "forget" /\ w = op.id /\ s = None),
         mem' = WithSession(mem, w, s), EnsureDir(w),
         op' = [at |-> "catalog", id |-> w],
         UNCHANGED <<catalog, used, acked, lost, torn>>
  PROVE  Step
  <1> USE IInvFacts
  <1>1. /\ mem' \in Abstract!Catalog /\ Good(mem') /\ Known(mem') = Known(mem)
        /\ mem'.recs[w].session = s
        /\ \A v \in Known(mem) \ {w} : mem'.recs[v] = mem.recs[v]
    BY SessionFacts DEF Good
  <1>2. /\ dir' \in [Ids -> Talks \cup {None}] /\ talks' \in 0 .. MaxTalks
        /\ dir'[w] # None
        /\ \A v \in Ids : dir[v] # None \/ v # w => dir'[v] = dir[v]
    BY EnsureDirFacts
  <1>3. TypeOK'
    BY <1>1, <1>2 DEF TypeOK
  <1>4. OpFits' /\ Kept'
    BY DEF OpFits, Kept, Changing
  <1>5. Dirs'
    BY <1>1, <1>2 DEF Dirs
  <1>6. Sessions'
    <2> SUFFICES ASSUME NEW v \in Known(mem') \ torn', mem'.recs[v].session # None
                 PROVE  mem'.recs[v].session = dir'[v]
      BY DEF Sessions
    <2>1. CASE v = w
      BY <2>1, <1>1, <1>2
    <2>2. CASE v # w
      BY <2>2, <1>1, <1>2 DEF Sessions
    <2> QED BY <2>1, <2>2
  <1>7. IInv'
    BY <1>1, <1>3, <1>4, <1>5, <1>6, IInvNext
  <1>8. Abstract!Change
    <2>1. Abstract!Settled
      BY DEF Kept, Changing, Abstract!Settled
    <2>2. Abstract!Saved(mem, mem')
      BY DEF Abstract!Saved, Known, WithSession, WithEntry
    <2> QED BY <2>1, <2>2 DEF Abstract!Change, Abstract!Changed
  <1> QED BY <1>7, <1>8 DEF Step, Abstract!Next

LEMMA SetSessionStep == ASSUME IInv, NEW w \in Ids, SetSession(w) PROVE Step
  <1>1. w \in Known(mem) /\ dir[w] \in Talks \cup {None}
    <2>1. dir \in [Ids -> Talks \cup {None}]
      BY IInvFacts DEF TypeOK
    <2> QED BY <2>1 DEF SetSession
  <1>2. op.at = "idle" /\ op' = [at |-> "catalog", id |-> w]
    BY DEF SetSession, Locked, Stage
  <1>3. mem' = WithSession(mem, w, dir[w]) /\ EnsureDir(w)
    BY DEF SetSession, PersistMeta
  <1>4. UNCHANGED <<catalog, used, acked, lost, torn>>
    BY DEF SetSession, history
  <1>5. PICK s \in Talks \cup {None} : s = dir[w]
    BY <1>1
  <1>6. mem' = WithSession(mem, w, s)
    BY <1>3, <1>5
  <1>7. (op.at = "idle" /\ s = dir[w]) \/ (op.at = "forget" /\ w = op.id /\ s = None)
    BY <1>2, <1>5
  <1> QED BY <1>1, <1>2, <1>3, <1>4, <1>6, <1>7, SavedStep

LEMMA ForgetStep == ASSUME IInv, Forget PROVE Step
  <1>1. op.id \in Known(mem)
    BY IInvFacts DEF Forget, Locked, OpFits
  <1> QED BY <1>1, SavedStep DEF Forget, Locked, Stage, PersistMeta, history

LEMMA ResetStep == ASSUME IInv, NEW w \in Ids, Reset(w) PROVE Step
  <1> USE IInvFacts
  <1>1. op.at = "idle" /\ w \in Known(mem)
    BY DEF Reset, Locked
  <1>2. /\ op' = [at |-> "forget", id |-> w]
        /\ UNCHANGED <<mem, catalog, used, acked, lost, torn>>
    BY DEF Reset, Stage, history
  <1>3. /\ dir' \in [Ids -> Talks \cup {None}] /\ talks' \in 0 .. MaxTalks
        /\ dir'[w] # None <=> dir[w] # None
        /\ \A v \in Ids \ {w} : dir'[v] = dir[v]
    <2>1. CASE dir[w] # None /\ talks < MaxTalks
               /\ dir' = [dir EXCEPT ![w] = talks + 1] /\ talks' = talks + 1
      <3>1. talks + 1 \in Talks /\ talks' \in 0 .. MaxTalks
        BY <2>1 DEF TypeOK, Talks
      <3> QED BY <2>1, <3>1, NoneApart DEF TypeOK
    <2>2. CASE UNCHANGED <<dir, talks>>
      BY <2>2 DEF TypeOK
    <2> QED BY <2>1, <2>2 DEF Reset
  <1>4. TypeOK'
    BY <1>2, <1>3 DEF TypeOK
  <1>5. OpFits' /\ Kept'
    BY <1>1, <1>2 DEF OpFits, Kept, Changing
  <1>6. Dirs'
    BY <1>1, <1>2, <1>3 DEF Dirs
  <1>7. Sessions'
    BY <1>1, <1>2, <1>3 DEF Sessions
  <1>8. IInv'
    BY <1>2, <1>4, <1>5, <1>6, <1>7, IInvNext
  <1> QED BY <1>2, <1>8 DEF Step, Abstract!catVars

LEMMA OpenLogStep == ASSUME IInv, NEW w \in Ids, OpenLog(w) PROVE Step
  <1> USE IInvFacts
  <1>1. op.at = "idle" /\ w \in Known(mem)
    BY DEF OpenLog, Locked
  <1>2. UNCHANGED <<mem, op, catalog, used, acked, lost, torn>>
    BY DEF OpenLog, history
  <1>3. /\ dir' \in [Ids -> Talks \cup {None}] /\ talks' \in 0 .. MaxTalks
        /\ dir'[w] # None
        /\ \A v \in Ids : dir[v] # None \/ v # w => dir'[v] = dir[v]
    BY EnsureDirFacts DEF OpenLog
  <1>4. TypeOK'
    BY <1>2, <1>3 DEF TypeOK
  <1>5. OpFits' /\ Kept'
    BY <1>1, <1>2 DEF OpFits, Kept, Changing
  <1>6. Dirs'
    BY <1>1, <1>2, <1>3 DEF Dirs
  <1>7. Sessions'
    BY <1>1, <1>2, <1>3 DEF Sessions, Dirs
  <1>8. IInv'
    BY <1>2, <1>4, <1>5, <1>6, <1>7, IInvNext
  <1> QED BY <1>2, <1>8 DEF Step, Abstract!catVars

LEMMA RestartStep == ASSUME IInv, Restart PROVE Step
  <1> USE IInvFacts
  <1>1. /\ mem' = catalog /\ acked' = catalog /\ op' = Idle /\ lost' = FALSE
        /\ UNCHANGED <<catalog, dir, used, talks>>
    BY DEF Restart, disk
  <1>2. torn' = torn \cup ({op.id} \ {None})
                     \cup {w \in Ids : EntryOf(catalog, w) # EntryOf(mem, w)}
    BY DEF Restart
  <1>3. TypeOK'
    BY <1>1, <1>2 DEF TypeOK, Idle
  <1>4. OpFits' /\ Kept'
    BY <1>1 DEF OpFits, Kept, Changing, Idle
  <1>5. ASSUME NEW w \in Ids \ torn'
        PROVE  /\ w \in Ids \ torn /\ w # op.id
               /\ w \in Known(catalog) <=> w \in Known(mem)
               /\ w \in Known(mem) => catalog.recs[w] = mem.recs[w]
    <2>1. w \in Ids \ torn /\ w # op.id /\ EntryOf(catalog, w) = EntryOf(mem, w)
      BY <1>2, <1>5, NoneApart
    <2>2. /\ w \in Known(mem) => mem.recs[w] # None
          /\ w \in Known(catalog) => catalog.recs[w] # None
      BY CatalogElim, NoneApart DEF Good
    <2> QED BY <2>1, <2>2 DEF EntryOf
  <1>6. Dirs'
    BY <1>1, <1>5 DEF Dirs, Idle
  <1>7. Sessions'
    BY <1>1, <1>5 DEF Sessions, Idle
  <1>8. IInv'
    BY <1>1, <1>3, <1>4, <1>6, <1>7, IInvNext
  <1>9. Abstract!Restart
    BY <1>1 DEF Abstract!Restart
  <1> QED BY <1>8, <1>9 DEF Step, Abstract!Next

LEMMA NextStep == IInv /\ [Next]_vars => Step
  <1> SUFFICES ASSUME IInv, [Next]_vars PROVE Step
    OBVIOUS
  <1>1. CASE UNCHANGED vars
    <2>1. UNCHANGED <<mem, op, catalog, dir, used, talks, acked, lost, torn>>
      BY <1>1 DEF vars, disk, history
    <2>2. TypeOK' /\ OpFits' /\ Kept' /\ Dirs' /\ Sessions'
      BY <2>1, IInvFacts DEF TypeOK, OpFits, Kept, Changing, Dirs, Sessions
    <2>3. IInv'
      BY <2>1, <2>2, IInvFacts, IInvNext
    <2> QED BY <2>1, <2>3 DEF Step, Abstract!catVars
  <1>2. CASE Mutate
    BY <1>2, CreateStep, DeleteStep, SetActiveStep, SetSessionStep, ResetStep, OpenLogStep,
       DeactivateStep DEF Mutate
  <1>3. CASE Continue
    BY <1>3, CreateMetaStep, RemoveStep, ActiveFileStep, ForgetStep, FinishStep DEF Continue
  <1>4. CASE Restart
    BY <1>4, RestartStep
  <1> QED BY <1>1, <1>2, <1>3, <1>4 DEF Next

-----------------------------------------------------------------------------
(* Theorems.                                                               *)

LEMMA Invariant == Spec => []IInv
  <1>1. IInv /\ [Next]_vars => IInv'
    BY NextStep DEF Step
  <1> QED BY IInvInit, <1>1, PTL DEF Spec

(* Every value in memory and on the disk is of its type, at every stage of *)
(* an operation and after every restart of the store.                      *)
THEOREM TypeCorrect == Spec => []TypeOK
  <1>1. IInv => TypeOK
    BY DEF IInv
  <1> QED BY Invariant, <1>1, PTL

(* What atomic_write and the order of the writes promise: an operation cut *)
(* short anywhere is found wholly or not at all by pin_workspace_store_open*)
(* unless a write that failed went unnoticed.                              *)
THEOREM OperationsAreAtomic == Spec => []AllOrNothing
  <1>1. IInv => AllOrNothing
    BY DEF IInv, Kept, AllOrNothing
  <1> QED BY Invariant, <1>1, PTL

(* pin_workspace_store_get_active never names a workspace that is not      *)
(* there, neither in memory nor after a restart at any step of a delete.   *)
THEOREM ActiveIsKnown == Spec => []ActiveExists
  <1>1. IInv => ActiveExists
    BY DEF IInv, Good, ActiveExists
  <1> QED BY Invariant, <1>1, PTL

(* pin_workspace_store_create keeps paths apart, also after restarts that  *)
(* bring an older catalog back.                                            *)
THEOREM PathsAreDistinct == Spec => []OnePerPath
  <1>1. IInv => OnePerPath
    BY DEF IInv, Good, OnePerPath
  <1> QED BY Invariant, <1>1, PTL

(* A restart finds a catalog the code can go on with.                      *)
THEOREM CatalogStaysSound == Spec => []CatalogIsSound
  <1>1. ActiveExists /\ OnePerPath => CatalogIsSound
    BY DEF CatalogIsSound
  <1> QED BY ActiveIsKnown, PathsAreDistinct, <1>1, PTL

(* Between two operations a session_sha is one of the conversation in the  *)
(* events.log, so that no activation switches back to what a reset erased. *)
THEOREM SessionsBelong == Spec => []SessionOfConversation
  <1>1. ASSUME IInv, Locked("idle"), NEW w \in Known(mem) \ torn, mem.recs[w].session # None
        PROVE  dir[w] # None /\ mem.recs[w].session = dir[w]
    BY <1>1, IInvFacts DEF Dirs, Sessions, Locked
  <1>2. IInv => SessionOfConversation
    BY <1>1 DEF SessionOfConversation
  <1> QED BY Invariant, <1>2, PTL

(* Between two operations there is a directory for every record and none   *)
(* beside them, but for workspaces a crash came between.                   *)
THEOREM DirectoriesBelong == Spec => []DirectoriesMatch
  <1>1. IInv => DirectoriesMatch
    BY DEF IInv, Dirs, DirectoriesMatch, Locked
  <1> QED BY Invariant, <1>1, PTL

(* What the records say of the files is so.                                *)
THEOREM FilesStayMatched == Spec => []FilesMatch
  <1>1. SessionOfConversation /\ DirectoriesMatch => FilesMatch
    BY DEF FilesMatch
  <1> QED BY SessionsBelong, DirectoriesBelong, <1>1, PTL

(* The store implements the catalog its callers rely on: whatever step a   *)
(* crash comes at, it is a step of DurableCatalog or changes nothing there.*)
THEOREM Refinement == Spec => KeepsCatalog
  <1>1. Init => Abstract!Init
    BY DEF Init, Abstract!Init
  <1>2. IInv /\ [Next]_vars => [Abstract!Next]_(Abstract!catVars)
    BY NextStep DEF Step
  <1> QED BY Invariant, <1>1, <1>2, PTL DEF Spec, KeepsCatalog, Abstract!Spec
=============================================================================
