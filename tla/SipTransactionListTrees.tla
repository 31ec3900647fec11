----------------------- MODULE SipTransactionListTrees -----------------------
(***************************************************************************)
(* The transaction list, for any number of threads, transactions and       *)
(* events, any tree of transactions and any lifetimes: the types, who      *)
(* holds mListMutex and the transactions, and what the collector deletes.  *)
(*                                                                         *)
(* The trees are what makes it hard.  mIsBusy is looked up at the top of   *)
(* the chain of parents, and linkChild and the collector move tops under   *)
(* the threads that hold them.  Grounded says that every chain ends, and   *)
(* stands in for an induction on the length of a chain: TopMost has the    *)
(* value it is written to have (the lemmas about links and tops), and the  *)
(* tops of one state are related to those of the next.  LockInv then says  *)
(* who is busy with what, and AgeInv how old the stamps can be that touch  *)
(* has left in a tree.                                                     *)
(***************************************************************************)
EXTENDS SipTransactionList, TLAPS

\* What each step is tried with, and for how long.
USE ZenonT(5), SMTT(20), ZenonT(60)

-----------------------------------------------------------------------------
\* Links and tops.

\* Every chain of parents ends: no set of transactions holds the parents of all
\* its members.
Grounded(up) ==
    \A S \in SUBSET Transactions : (\A t \in S : up[t] \in S) => S = {}

Links == [Transactions -> Transactions \cup {NULL}]

\* The transactions on the way up from t are in every set that holds t and the
\* parents of its members.
Above(up, t) ==
    {s \in Transactions : \A S \in SUBSET Transactions :
        t \in S /\ (\A u \in S : up[u] # NULL => up[u] \in S) => s \in S}
Roots(up, t) == {s \in Above(up, t) : up[s] = NULL}

IsTop(up, f) == f = [s \in Transactions |-> IF up[s] = NULL THEN s ELSE f[up[s]]]

LEMMA AboveStep ==
    ASSUME NEW up \in Links, NEW t \in Transactions
    PROVE  /\ t \in Above(up, t)
           /\ \A s \in Above(up, t) : up[s] # NULL => up[s] \in Above(up, t)
           /\ up[t] # NULL => Above(up, t) = {t} \cup Above(up, up[t])
<1>1. t \in Above(up, t)
  BY DEF Above
<1>2. ASSUME NEW s \in Above(up, t), up[s] # NULL
      PROVE  up[s] \in Above(up, t)
  BY <1>2 DEF Above, Links
<1>3. ASSUME up[t] # NULL
      PROVE  Above(up, t) = {t} \cup Above(up, up[t])
  <2>1. up[t] \in Transactions
    BY <1>3 DEF Links
  <2>2. Above(up, up[t]) \subseteq Above(up, t)
    <3> SUFFICES ASSUME NEW s \in Above(up, up[t]), NEW S \in SUBSET Transactions,
                        t \in S, \A u \in S : up[u] # NULL => up[u] \in S
                 PROVE  s \in S
      BY DEF Above
    <3>1. up[t] \in S
      BY <1>3
    <3> QED BY <3>1 DEF Above
  <2>3. Above(up, t) \subseteq {t} \cup Above(up, up[t])
    <3> DEFINE S == {t} \cup Above(up, up[t])
    <3>1. S \in SUBSET Transactions
      BY DEF Above
    <3>2. up[t] \in S
      BY <2>1 DEF Above
    <3>3. ASSUME NEW u \in Above(up, up[t]), up[u] # NULL
          PROVE  up[u] \in Above(up, up[t])
      BY <3>3, <2>1 DEF Above, Links
    <3>4. \A u \in S : up[u] # NULL => up[u] \in S
      BY <3>2, <3>3
    <3>5. t \in S
      OBVIOUS
    <3> QED BY <3>1, <3>4, <3>5 DEF Above
  <2> QED BY <2>2, <2>3, <1>1
<1> QED BY <1>1, <1>2, <1>3

\* So there is a function that maps each transaction to its top, ...
LEMMA TopExists ==
    ASSUME NEW up \in Links, Grounded(up)
    PROVE  \E f : IsTop(up, f)
<1> DEFINE f == [t \in Transactions |-> CHOOSE s : s \in Roots(up, t)]
<1>1. ASSUME NEW t \in Transactions, up[t] = NULL
      PROVE  f[t] = t
  <2>1. Above(up, t) = {t}
    <3>1. {t} \in SUBSET Transactions /\ \A u \in {t} : up[u] # NULL => up[u] \in {t}
      BY <1>1
    <3>2. Above(up, t) \subseteq {t}
      BY <3>1 DEF Above
    <3> QED BY <3>2, AboveStep
  <2>2. Roots(up, t) = {t}
    BY <1>1, <2>1 DEF Roots
  <2> QED BY <2>2
<1>2. ASSUME NEW t \in Transactions, up[t] # NULL
      PROVE  f[t] = f[up[t]]
  <2>1. Above(up, t) = {t} \cup Above(up, up[t])
    BY <1>2, AboveStep
  <2>2. Roots(up, t) = Roots(up, up[t])
    BY <1>2, <2>1 DEF Roots
  <2>3. up[t] \in Transactions
    BY <1>2 DEF Links
  <2> QED BY <2>2, <2>3
<1>3. f = [s \in Transactions |-> IF up[s] = NULL THEN s ELSE f[up[s]]]
  BY <1>1, <1>2
<1> QED BY <1>3 DEF IsTop

\* ... and TopMost is it.
LEMMA TopIs ==
    ASSUME NEW up \in Links, Grounded(up)
    PROVE  \E f \in [Transactions -> Transactions] :
              /\ \A t \in Transactions : TopMost(up, t) = f[t]
              /\ \A t \in Transactions : up[t] = NULL => f[t] = t
              /\ \A t \in Transactions : up[t] # NULL => f[t] = f[up[t]]
              /\ \A t \in Transactions : up[f[t]] = NULL
<1> DEFINE f == CHOOSE g : IsTop(up, g)
<1>1. IsTop(up, f)
  BY TopExists
<1>2. \A t \in Transactions : TopMost(up, t) = f[t]
  BY DEF TopMost, IsTop
<1> HIDE DEF f
<1>3. \A t \in Transactions : up[t] = NULL => f[t] = t
  BY <1>1 DEF IsTop
<1>4. \A t \in Transactions : up[t] # NULL => f[t] = f[up[t]]
  BY <1>1 DEF IsTop
<1>5. \A t \in Transactions : f[t] \in Transactions /\ up[f[t]] = NULL
  <2> DEFINE S == {t \in Transactions : ~(f[t] \in Transactions /\ up[f[t]] = NULL)}
  <2>1. \A t \in S : up[t] \in S
    BY <1>3, <1>4 DEF Links
  <2>2. S = {}
    BY <2>1 DEF Grounded
  <2> QED BY <2>2
<1>6. f \in [Transactions -> Transactions]
  BY <1>1, <1>5 DEF IsTop
<1> QED BY <1>2, <1>3, <1>4, <1>5, <1>6

\* What the proofs use of tops.
LEMMA TopStep ==
    ASSUME NEW up \in Links, Grounded(up), NEW t \in Transactions
    PROVE  /\ TopMost(up, t) \in Transactions
           /\ up[TopMost(up, t)] = NULL
           /\ up[t] = NULL => TopMost(up, t) = t
           /\ up[t] # NULL => /\ up[t] \in Transactions
                              /\ TopMost(up, t) = TopMost(up, up[t])
           /\ TopMost(up, TopMost(up, t)) = TopMost(up, t)
<1>1. PICK f \in [Transactions -> Transactions] :
              /\ \A s \in Transactions : TopMost(up, s) = f[s]
              /\ \A s \in Transactions : up[s] = NULL => f[s] = s
              /\ \A s \in Transactions : up[s] # NULL => f[s] = f[up[s]]
              /\ \A s \in Transactions : up[f[s]] = NULL
  BY TopIs
<1>2. up[t] # NULL => up[t] \in Transactions
  BY DEF Links
<1>3. f[t] \in Transactions
  OBVIOUS
<1> QED BY <1>1, <1>2, <1>3

\* The top of a transaction in the list is in the list.
LEMMA TopWithin ==
    ASSUME NEW up \in Links, Grounded(up), NEW M \in SUBSET Transactions,
           \A s \in Transactions : up[s] # NULL => up[s] \in M,
           NEW t \in M
    PROVE  TopMost(up, t) \in M
<1> DEFINE S == {s \in M : TopMost(up, s) \notin M}
<1>1. \A s \in S : up[s] \in S
  BY TopStep
<1>2. S = {}
  BY <1>1 DEF Grounded
<1> QED BY <1>2

\* linkChild: the tops stay, and the child has the top of its parent.
LEMMA LinkTops ==
    ASSUME NEW up \in Links, Grounded(up), NEW t \in Transactions, NEW p \in Transactions,
           t # p, \A s \in Transactions : up[s] # t,
           NEW v, v = [s \in Transactions |-> IF s = t THEN p ELSE up[s]]
    PROVE  /\ v \in Links /\ Grounded(v)
           /\ \A s \in Transactions \ {t} : TopMost(v, s) = TopMost(up, s)
           /\ TopMost(v, t) = TopMost(up, p)
<1>1. v \in Links /\ v[t] = p /\ \A s \in Transactions \ {t} : v[s] = up[s]
  BY DEF Links
<1>2. Grounded(v)
  <2> SUFFICES ASSUME NEW S \in SUBSET Transactions, \A s \in S : v[s] \in S
               PROVE  S = {}
    BY DEF Grounded
  <2>1. \A s \in S \ {t} : up[s] \in S \ {t}
    BY <1>1
  <2>2. S \ {t} = {}
    BY <2>1 DEF Grounded
  <2> QED BY <1>1, <2>2
<1>3. \A s \in Transactions \ {t} : TopMost(v, s) = TopMost(up, s)
  <2> DEFINE S == {s \in Transactions \ {t} : TopMost(v, s) # TopMost(up, s)}
  <2>1. ASSUME NEW s \in S
        PROVE  up[s] \in S
    <3>1. v[s] = up[s] /\ up[s] # t
      BY <1>1
    <3>2. up[s] # NULL
      BY <1>1, <1>2, <3>1, TopStep
    <3>3. up[s] \in Transactions \ {t} /\ TopMost(v, s) = TopMost(v, up[s])
          /\ TopMost(up, s) = TopMost(up, up[s])
      BY <1>1, <1>2, <3>1, <3>2, TopStep
    <3> QED BY <3>3
  <2>2. S = {}
    BY <2>1 DEF Grounded
  <2> QED BY <2>2
<1>4. TopMost(v, t) = TopMost(v, p)
  BY <1>1, <1>2, TopStep, NoneIsNull
<1> QED BY <1>1, <1>2, <1>3, <1>4

\* deleteTransactions: what loses its top keeps to members of the old tree, no
\* deleted one is a top, and trees that lose nobody stay as they are.
LEMMA CutTops ==
    ASSUME NEW up \in Links, Grounded(up), NEW D \in SUBSET Transactions,
           NEW v, v = [s \in Transactions |-> IF s \in D \/ up[s] \in D THEN NULL ELSE up[s]]
    PROVE  /\ v \in Links /\ Grounded(v)
           /\ \A s \in Transactions : TopMost(up, TopMost(v, s)) = TopMost(up, s)
           /\ \A s \in Transactions \ D : TopMost(v, s) \notin D
           /\ \A s \in Transactions :
                (\A d \in D : TopMost(up, d) # TopMost(up, s)) => TopMost(v, s) = TopMost(up, s)
<1>1. v \in Links /\ \A s \in Transactions : v[s] = NULL \/ v[s] = up[s]
  BY DEF Links
<1>2. Grounded(v)
  <2> SUFFICES ASSUME NEW S \in SUBSET Transactions, \A s \in S : v[s] \in S
               PROVE  S = {}
    BY DEF Grounded
  <2>1. \A s \in S : up[s] \in S
    BY <1>1, NoneIsNull
  <2> QED BY <2>1 DEF Grounded
<1>3. \A s \in Transactions : TopMost(up, TopMost(v, s)) = TopMost(up, s)
  <2> DEFINE S == {s \in Transactions : TopMost(up, TopMost(v, s)) # TopMost(up, s)}
  <2>1. ASSUME NEW s \in S
        PROVE  up[s] \in S
    <3>1. v[s] # NULL
      BY <1>1, <1>2, TopStep
    <3>2. v[s] = up[s] /\ TopMost(v, s) = TopMost(v, up[s]) /\ up[s] \in Transactions
          /\ TopMost(up, s) = TopMost(up, up[s])
      BY <1>1, <1>2, <3>1, TopStep
    <3> QED BY <3>2
  <2>2. S = {}
    BY <2>1 DEF Grounded
  <2> QED BY <2>2
<1>4. \A s \in Transactions \ D : TopMost(v, s) \notin D
  <2> DEFINE S == {s \in Transactions \ D : TopMost(v, s) \in D}
  <2>1. ASSUME NEW s \in S
        PROVE  up[s] \in S
    <3>1. v[s] # NULL
      BY <1>1, <1>2, TopStep
    <3>2. v[s] = up[s] /\ TopMost(v, s) = TopMost(v, up[s]) /\ up[s] \in Transactions
          /\ up[s] \notin D
      BY <1>1, <1>2, <3>1, TopStep
    <3> QED BY <3>2
  <2>2. S = {}
    BY <2>1 DEF Grounded
  <2> QED BY <2>2
<1>5. ASSUME NEW r \in Transactions, \A d \in D : TopMost(up, d) # TopMost(up, r)
      PROVE  TopMost(v, r) = TopMost(up, r)
  <2> DEFINE S == {s \in Transactions : /\ TopMost(up, s) = TopMost(up, r)
                                        /\ TopMost(v, s) # TopMost(up, s)}
  <2>1. ASSUME NEW s \in S
        PROVE  up[s] \in S
    <3>1. s \notin D /\ up[s] \notin D
      BY <1>5, TopStep, NoneIsNull DEF Links
    <3>2. v[s] = up[s]
      BY <3>1
    <3>3. up[s] # NULL
      BY <1>1, <1>2, <3>2, TopStep
    <3>4. up[s] \in Transactions /\ TopMost(v, s) = TopMost(v, up[s])
          /\ TopMost(up, s) = TopMost(up, up[s])
      BY <1>1, <1>2, <3>2, <3>3, TopStep
    <3> QED BY <3>4
  <2>2. S = {}
    BY <2>1 DEF Grounded
  <2> QED BY <2>2
<1> QED BY <1>1, <1>2, <1>3, <1>4, <1>5

-----------------------------------------------------------------------------
\* The tree lock.

Types ==
    /\ TypeOK
    /\ mWaitingList \in [Transactions -> Seq(Events)]

\* What is not in the list has the fields of a new object; links stay in the
\* list and among transactions of one method.
Forest ==
    /\ Grounded(parent)
    /\ \A t \in Transactions \ mTransactions :
         ~mIsBusy[t] /\ parent[t] = NULL /\ ~complete[t] /\ age[t] = 0 /\ unused[t] = 0
    /\ \A t \in Transactions :
         parent[t] # NULL => /\ parent[t] \in mTransactions
                             /\ t \in setting.invites <=> parent[t] \in setting.invites
    /\ mTransactions \subseteq setting.invites \cup setting.others

\* Where the processes stand, and what they hold there.
Places ==
    /\ \A p \in Threads :
         /\ tx[p] = NULL <=> pc[p] = "idle" \/ mListMutex = p
         /\ ev[p] # NULL <=> pc[p] \in {"wait", "test", "set", "post"}
         /\ mListMutex = p => pc[p] \in {"test", "set", "post"}
         /\ pc[p] # "sweep"
         /\ pc[p] \in {"idle", "hold", "retry"} \/ mListMutex = p => waitTime[p] = 0
         /\ pc[p] = "wait" => waitTime[p] < 2
    /\ pc[GC] \in {"idle", "sweep", "test", "set", "post"}
    /\ ev[GC] # NULL <=> pc[GC] \in {"test", "set", "post"}
    /\ mListMutex = GC <=> pc[GC] # "idle"
    /\ pc[GC] = "idle" => doomed = {}
    /\ \A t \in doomed : ~mIsBusy[t]

LockInv == Types /\ Forest /\ Places /\ OneHolder

LEMMA Oldest == OLDEST \in Nat /\ OLDEST > INVITE_LIFETIME /\ OLDEST > LIFETIME
BY LifetimesOrdered DEF OLDEST

LEMMA OneOfMany == ASSUME NEW S PROVE OneOf(S) \subseteq S
BY DEF OneOf

LEMMA SettingType ==
    ASSUME setting \in Settings
    PROVE  /\ setting.threads \subseteq Threads /\ setting.invites \subseteq Transactions
           /\ setting.others \subseteq Transactions /\ setting.events \subseteq Events
           /\ setting.overruns \in BOOLEAN /\ setting.invites \cap setting.others = {}
BY SettingsAreThere

LEMMA Tops ==
    ASSUME Types, Forest
    PROVE  /\ parent \in Links /\ Grounded(parent)
           /\ \A t \in Transactions :
                /\ Top(t) \in Transactions
                /\ parent[Top(t)] = NULL
                /\ Top(Top(t)) = Top(t)
                /\ parent[t] = NULL => Top(t) = t
                /\ parent[t] # NULL => /\ parent[t] \in Transactions
                                       /\ Top(t) = Top(parent[t])
           /\ \A t \in mTransactions : Top(t) \in mTransactions
           /\ \A t \in Transactions \ mTransactions : Top(t) = t
<1>1. parent \in Links /\ Grounded(parent)
  BY DEF Types, TypeOK, Forest, Links
<1>2. \A t \in Transactions :
        /\ Top(t) \in Transactions
        /\ parent[Top(t)] = NULL
        /\ Top(Top(t)) = Top(t)
        /\ parent[t] = NULL => Top(t) = t
        /\ parent[t] # NULL => parent[t] \in Transactions /\ Top(t) = Top(parent[t])
  BY <1>1, TopStep DEF Top
<1>3. mTransactions \in SUBSET Transactions
      /\ \A s \in Transactions : parent[s] # NULL => parent[s] \in mTransactions
  BY DEF Types, TypeOK, Forest
<1>4. \A t \in mTransactions : Top(t) \in mTransactions
  BY <1>1, <1>3, TopWithin DEF Top
<1>5. \A t \in Transactions \ mTransactions : Top(t) = t
  BY <1>2 DEF Forest
<1> QED BY <1>1, <1>2, <1>4, <1>5

LEMMA SameForest ==
    ASSUME Forest,
           UNCHANGED <<setting, mTransactions, parent, mIsBusy, complete, age, unused>>
    PROVE  Forest'
BY DEF Forest

LEMMA SameHolders ==
    ASSUME OneHolder, UNCHANGED <<mTransactions, parent, mIsBusy>>, Held' = Held,
           \A p \in Held : tx'[p] = tx[p]
    PROVE  OneHolder'
BY DEF OneHolder, Top

LEMMA LockInit == Init => LockInv
<1> SUFFICES ASSUME Init PROVE LockInv
  OBVIOUS
<1> USE DEF Init
<1>1. Types
  BY Oldest, NoneIsNull DEF Types, TypeOK, Procs, Range
<1>2. Grounded(parent)
  BY NoneIsNull DEF Grounded
<1>3. Forest
  BY <1>2 DEF Forest
<1>4. Places
  BY NoneIsNull DEF Places, Procs
<1>5. Held = {}
  BY DEF Held, Procs
<1>6. OneHolder
  BY <1>5 DEF OneHolder
<1> QED BY <1>1, <1>3, <1>4, <1>6 DEF LockInv

\* A thread takes the tree of t that nobody has.
LEMMA TakeTree ==
    ASSUME LockInv, NEW p \in Threads, NEW t \in mTransactions, ~mIsBusy[t], p \notin Held,
           markBusy(t), UNCHANGED <<mTransactions, parent>>,
           Held' = Held \cup {p}, tx'[p] = t, \A q \in Held : tx'[q] = tx[q]
    PROVE  OneHolder'
<1>1. \A s \in mTransactions : mIsBusy'[s] <=> mIsBusy[s] \/ Top(s) = Top(t)
  BY DEF markBusy, LockInv, Types, TypeOK, Tree
<1>2. \A s : Top(s)' = Top(s)
  BY DEF Top
<1>3. \A q \in Held : Top(tx[q]) # Top(t)
  BY DEF LockInv, OneHolder
<1> HIDE DEF Top
<1>4. \A q \in Held' : tx'[q] \in mTransactions
  BY DEF LockInv, OneHolder
<1>5. \A q, r \in Held' : q # r => Top(tx'[q]) # Top(tx'[r])
  BY <1>3 DEF LockInv, OneHolder
<1>6. \A s \in mTransactions : mIsBusy'[s] <=> \E q \in Held' : Top(tx'[q]) = Top(s)
  BY <1>1 DEF LockInv, OneHolder
<1> QED BY <1>4, <1>5, <1>6 DEF OneHolder, Top

LEMMA LockNew ==
    ASSUME LockInv, UNCHANGED setting, NEW p \in Threads, newTransaction(p)
    PROVE  LockInv'
<1> USE NoneIsNull DEF newTransaction, At, Goto, ageVars, eventVars
<1>1. PICK t \in NewObjects \cap (setting.invites \cup setting.others) :
        /\ mTransactions' = mTransactions \cup {t}
        /\ mIsBusy' = [mIsBusy EXCEPT ![t] = TRUE]
        /\ tx' = [tx EXCEPT ![p] = t]
  BY OneOfMany
<1>2. t \in Transactions /\ t \notin mTransactions
  BY <1>1 DEF NewObjects
<1>3. Types'
  BY <1>1, <1>2 DEF LockInv, Types, TypeOK, Procs
<1>4. Forest'
  BY <1>1, <1>2 DEF LockInv, Types, TypeOK, Forest
<1>5. Places'
  BY <1>1, <1>2 DEF LockInv, Types, TypeOK, Procs, Places
<1>6. OneHolder'
  <2>1. p \notin Held /\ Held' = Held \cup {p} /\ tx'[p] = t /\ \A q \in Held : tx'[q] = tx[q]
    BY <1>1 DEF LockInv, Types, TypeOK, Procs, Held
  <2>2. Top(t) = t /\ \A s \in mTransactions : Top(s) # t
    BY <1>2, Tops DEF LockInv
  <2>0. mIsBusy \in [Transactions -> BOOLEAN] /\ mTransactions \subseteq Transactions
    BY DEF LockInv, Types, TypeOK
  <2>3. \A s \in mTransactions : mIsBusy'[s] = mIsBusy[s]
    BY <1>1, <1>2, <2>0
  <2>4. mIsBusy'[t]
    BY <1>1, <1>2, <2>0
  <2>5. \A q \in Held' : tx'[q] \in mTransactions'
    BY <1>1, <2>1 DEF LockInv, OneHolder
  <2>6. \A q, r \in Held' : q # r => Top(tx'[q]) # Top(tx'[r])
    BY <2>1, <2>2 DEF LockInv, OneHolder
  <2>7. \A s \in mTransactions' : mIsBusy'[s] <=> \E q \in Held' : Top(tx'[q]) = Top(s)
    BY <1>1, <2>1, <2>2, <2>3, <2>4 DEF LockInv, OneHolder
  <2> QED BY <2>5, <2>6, <2>7 DEF OneHolder, Top
<1> QED BY <1>3, <1>4, <1>5, <1>6 DEF LockInv

\* What linkChild does to the trees.
LEMMA LinkFacts ==
    ASSUME LockInv, NEW p \in Threads, linkChild(p)
    PROVE  \E t \in NewObjects \cap SameMethod(tx[p]) :
             /\ t \in Transactions /\ t \notin mTransactions
             /\ tx[p] \in mTransactions /\ tx[p] # t /\ mIsBusy[tx[p]]
             /\ mTransactions' = mTransactions \cup {t}
             /\ parent' = [parent EXCEPT ![t] = tx[p]]
             /\ mIsBusy' = [mIsBusy EXCEPT ![t] = TRUE]
             /\ unused' = [unused EXCEPT ![t] = IF complete[Top(tx[p])] THEN OLDEST ELSE 0]
             /\ parent' \in Links /\ Grounded(parent')
             /\ \A s \in Transactions \ {t} : Top(s)' = Top(s)
             /\ Top(t)' = Top(tx[p])
             /\ p \in Held /\ Held' = Held
<1> USE NoneIsNull DEF linkChild, At
<1>1. PICK t \in NewObjects \cap SameMethod(tx[p]) :
        /\ mTransactions' = mTransactions \cup {t}
        /\ parent' = [parent EXCEPT ![t] = tx[p]]
        /\ mIsBusy' = [mIsBusy EXCEPT ![t] = mIsBusy[tx[p]]]
        /\ unused' = [unused EXCEPT ![t] = IF complete[Top(tx[p])] THEN OLDEST ELSE 0]
  BY OneOfMany
<1>2. p \in Held /\ Held' = Held
  BY DEF Held
<1>3. tx[p] \in mTransactions /\ mIsBusy[tx[p]]
  BY <1>2 DEF LockInv, OneHolder
<1>4. t \in Transactions /\ t \notin mTransactions /\ tx[p] \in Transactions /\ tx[p] # t
  BY <1>1, <1>3 DEF NewObjects, LockInv, Types, TypeOK
<1>5. \A s \in Transactions : parent[s] # t
  BY <1>4 DEF LockInv, Forest
<1>6. parent \in Links /\ Grounded(parent)
  BY Tops DEF LockInv
<1>7. parent' = [s \in Transactions |-> IF s = t THEN tx[p] ELSE parent[s]]
  BY <1>1, <1>6 DEF Links
<1>8. /\ parent' \in Links /\ Grounded(parent')
      /\ \A s \in Transactions \ {t} : TopMost(parent', s) = TopMost(parent, s)
      /\ TopMost(parent', t) = TopMost(parent, tx[p])
  <2> HIDE DEF linkChild
  <2>1. PICK v : v = parent'
    OBVIOUS
  <2>2. v = [s \in Transactions |-> IF s = t THEN tx[p] ELSE parent[s]]
    BY <1>7, <2>1
  <2>3. /\ v \in Links /\ Grounded(v)
        /\ \A s \in Transactions \ {t} : TopMost(v, s) = TopMost(parent, s)
        /\ TopMost(v, t) = TopMost(parent, tx[p])
    BY <1>4, <1>5, <1>6, <2>2, LinkTops
  <2> QED BY <2>1, <2>3
<1>9. mIsBusy' = [mIsBusy EXCEPT ![t] = TRUE]
  BY <1>1, <1>3 DEF LockInv, Types, TypeOK
<1> QED BY <1>1, <1>2, <1>3, <1>4, <1>8, <1>9 DEF Top

LEMMA LockLink ==
    ASSUME LockInv, UNCHANGED setting, NEW p \in Threads, linkChild(p)
    PROVE  LockInv'
<1> USE NoneIsNull
<1>1. PICK t \in NewObjects \cap SameMethod(tx[p]) :
             /\ t \in Transactions /\ t \notin mTransactions
             /\ tx[p] \in mTransactions /\ tx[p] # t /\ mIsBusy[tx[p]]
             /\ mTransactions' = mTransactions \cup {t}
             /\ parent' = [parent EXCEPT ![t] = tx[p]]
             /\ mIsBusy' = [mIsBusy EXCEPT ![t] = TRUE]
             /\ unused' = [unused EXCEPT ![t] = IF complete[Top(tx[p])] THEN OLDEST ELSE 0]
             /\ parent' \in Links /\ Grounded(parent')
             /\ \A s \in Transactions \ {t} : Top(s)' = Top(s)
             /\ Top(t)' = Top(tx[p])
             /\ p \in Held /\ Held' = Held
  BY LinkFacts
<1>2. UNCHANGED <<complete, age, mWaitingList, eventVars, mListMutex, doomed, pc, callVars, err>>
      /\ mListMutex = NULL
  BY DEF linkChild
<1> USE DEF eventVars, callVars
<1>3. Types'
  BY <1>1, <1>2, Oldest DEF LockInv, Types, TypeOK
<1>4. Forest'
  <2>1. t \in setting.invites <=> tx[p] \in setting.invites
    BY <1>1, SettingType DEF SameMethod, LockInv, Types, TypeOK
  <2>2. t \in setting.invites \cup setting.others
    BY <1>1 DEF SameMethod
  <2> QED BY <1>1, <1>2, <2>1, <2>2 DEF LockInv, Types, TypeOK, Forest
<1>5. Places'
  <2>1. t \notin doomed
    BY <1>1 DEF LockInv, Types, TypeOK
  <2> QED BY <1>1, <1>2, <2>1 DEF LockInv, Types, TypeOK, Places
<1>6. OneHolder'
  <2>1. \A q \in Held : tx[q] \in mTransactions /\ tx[q] \in Transactions \ {t}
    BY <1>1 DEF LockInv, OneHolder, Types, TypeOK
  <2>2. \A q \in Held : Top(tx[q])' = Top(tx[q])
    BY <1>1, <1>2, <2>1
  <2>0. mIsBusy \in [Transactions -> BOOLEAN] /\ mTransactions \subseteq Transactions
    BY DEF LockInv, Types, TypeOK
  <2>3. \A s \in mTransactions : Top(s)' = Top(s) /\ mIsBusy'[s] = mIsBusy[s]
    BY <1>1, <2>0
  <2>4. mIsBusy'[t]
    BY <1>1, <2>0
  <2> HIDE DEF Top
  <2>5. \A q, r \in Held : q # r => Top(tx[q])' # Top(tx[r])'
    BY <2>2 DEF LockInv, OneHolder
  <2>6. \A s \in mTransactions : mIsBusy'[s] <=> \E q \in Held : Top(tx[q])' = Top(s)'
    BY <2>2, <2>3 DEF LockInv, OneHolder
  <2>7. Top(tx[p])' = Top(t)'
    BY <1>1, <2>2
  <2> QED BY <1>1, <1>2, <2>1, <2>4, <2>5, <2>6, <2>7 DEF OneHolder
<1> QED BY <1>3, <1>4, <1>5, <1>6 DEF LockInv

LEMMA LockComplete ==
    ASSUME LockInv, UNCHANGED setting, NEW p \in Threads, completeTransaction(p)
    PROVE  LockInv'
<1> USE NoneIsNull DEF completeTransaction, At, ageVars, eventVars, callVars
<1>1. p \in Held /\ Held' = Held
  BY DEF Held
<1>2. tx[p] \in mTransactions /\ tx[p] \in Transactions
  BY <1>1 DEF LockInv, OneHolder, Types, TypeOK
<1>3. Types'
  BY <1>2 DEF LockInv, Types, TypeOK
<1>4. Forest'
  BY <1>2 DEF LockInv, Types, TypeOK, Forest
<1>5. Places'
  BY DEF LockInv, Places
<1>6. OneHolder'
  BY <1>1, SameHolders DEF LockInv
<1> QED BY <1>3, <1>4, <1>5, <1>6 DEF LockInv

LEMMA LockFind ==
    ASSUME LockInv, UNCHANGED setting, NEW p \in Threads, findTransactionFor(p)
    PROVE  LockInv'
<1> USE NoneIsNull DEF findTransactionFor, At, Goto, ageVars, eventVars
<1>1. PICK t \in mTransactions :
         /\ tx' = [tx EXCEPT ![p] = t]
         /\ \/ /\ ~mIsBusy[t]
               /\ markBusy(t)
               /\ pc' = [pc EXCEPT ![p] = "hold"]
            \/ /\ mIsBusy[t]
               /\ pc' = [pc EXCEPT ![p] = "retry"]
               /\ UNCHANGED mIsBusy
  OBVIOUS
<1>2. t \in Transactions /\ p \in Procs /\ p # GC
  BY DEF LockInv, Types, TypeOK, Procs
<1>3. mIsBusy' \in [Transactions -> BOOLEAN]
      /\ \A s \in Transactions \ mTransactions : mIsBusy'[s] = mIsBusy[s]
  <2>1. mIsBusy \in [Transactions -> BOOLEAN]
    BY DEF LockInv, Types, TypeOK
  <2>2. markBusy(t) \/ UNCHANGED mIsBusy
    BY <1>1
  <2> QED BY <2>1, <2>2 DEF markBusy, Tree
<1>4. Types'
  BY <1>1, <1>2, <1>3 DEF LockInv, Types, TypeOK
<1>5. Forest'
  BY <1>3 DEF LockInv, Types, TypeOK, Forest
<1>6. Places'
  <2>1. doomed = {}
    BY DEF LockInv, Places
  <2>2. /\ tx'[p] = t /\ pc'[p] \in {"hold", "retry"}
        /\ \A q \in Procs \ {p} : pc'[q] = pc[q]
        /\ \A q \in Threads \ {p} : tx'[q] = tx[q]
    BY <1>1, <1>2 DEF LockInv, Types, TypeOK
  <2> HIDE DEF findTransactionFor
  <2>3. UNCHANGED <<mListMutex, ev, waitTime, doomed>> /\ mListMutex = NULL /\ pc[p] = "idle"
    BY DEF findTransactionFor
  <2> QED BY <1>2, <2>1, <2>2, <2>3 DEF LockInv, Places, Procs
<1>7. OneHolder'
  <2>1. p \notin Held /\ tx'[p] = t /\ \A q \in Held : tx'[q] = tx[q]
    BY <1>1 DEF Held, LockInv, Types, TypeOK
  <2>2. CASE ~mIsBusy[t] /\ markBusy(t) /\ pc' = [pc EXCEPT ![p] = "hold"]
    <3>1. Held' = Held \cup {p}
      BY <1>2, <2>2 DEF Held, LockInv, Types, TypeOK
    <3> QED BY <2>1, <2>2, <3>1, TakeTree
  <2>3. CASE pc' = [pc EXCEPT ![p] = "retry"] /\ UNCHANGED mIsBusy
    <3>1. Held' = Held
      BY <1>2, <2>1, <2>3 DEF Held, LockInv, Types, TypeOK
    <3> QED BY <2>1, <2>3, <3>1, SameHolders DEF LockInv
  <2> QED BY <1>1, <2>2, <2>3
<1> QED BY <1>4, <1>5, <1>6, <1>7 DEF LockInv

LEMMA LockWait ==
    ASSUME LockInv, UNCHANGED setting, NEW p \in Threads, waitUntilAvailable(p)
    PROVE  LockInv'
<1> USE NoneIsNull DEF At, Goto, ageVars, eventVars
<1>1. pc[p] = "retry" /\ mListMutex = NULL /\ p # GC /\ p \in Procs
      /\ UNCHANGED <<mTransactions, parent, complete, ageVars, mListMutex, doomed,
                     waitTime, waitStatus, err>>
  BY DEF waitUntilAvailable, Procs
<1>2. p \notin Held /\ doomed = {} /\ tx[p] \in Transactions
  BY <1>1 DEF Held, LockInv, Places, Types, TypeOK
<1>3. CASE /\ tx[p] \notin mTransactions
           /\ tx' = [tx EXCEPT ![p] = NULL]
           /\ pc' = [pc EXCEPT ![p] = "idle"]
           /\ UNCHANGED <<mIsBusy, mWaitingList, eventVars, ev>>
  <2>1. Types'
    BY <1>1, <1>3 DEF LockInv, Types, TypeOK
  <2>2. Forest'
    BY <1>1, <1>3, SameForest DEF LockInv
  <2>3. Places'
    BY <1>1, <1>2, <1>3 DEF LockInv, Types, TypeOK, Places
  <2>4. Held' = Held /\ \A q \in Held : tx'[q] = tx[q]
    BY <1>1, <1>2, <1>3 DEF Held, LockInv, Types, TypeOK
  <2>5. OneHolder'
    BY <1>1, <1>3, <2>4, SameHolders DEF LockInv
  <2> QED BY <2>1, <2>2, <2>3, <2>5 DEF LockInv
<1>4. CASE /\ tx[p] \in mTransactions /\ ~mIsBusy[tx[p]]
           /\ markBusy(tx[p])
           /\ pc' = [pc EXCEPT ![p] = "hold"]
           /\ UNCHANGED <<mWaitingList, eventVars, tx, ev>>
  <2>1. mIsBusy' \in [Transactions -> BOOLEAN]
        /\ \A s \in Transactions \ mTransactions : mIsBusy'[s] = mIsBusy[s]
    BY <1>4 DEF markBusy, Tree, LockInv, Types, TypeOK
  <2>2. Types'
    BY <1>1, <1>4, <2>1 DEF LockInv, Types, TypeOK
  <2>3. Forest'
    BY <1>1, <2>1 DEF LockInv, Types, TypeOK, Forest
  <2>4. Places'
    BY <1>1, <1>2, <1>4 DEF LockInv, Types, TypeOK, Places
  <2>5. Held' = Held \cup {p}
    BY <1>1, <1>4 DEF Held, LockInv, Types, TypeOK
  <2>6. OneHolder'
    BY <1>1, <1>2, <1>4, <2>5, TakeTree
  <2> QED BY <2>2, <2>3, <2>4, <2>6 DEF LockInv
<1>5. ASSUME tx[p] \in mTransactions, mIsBusy[tx[p]],
             NEW e \in OneOf(FreeAddresses),
             allocated' = allocated \cup {e},
             notifyWhenAvailable(tx[p], e),
             ev' = [ev EXCEPT ![p] = e],
             pc' = [pc EXCEPT ![p] = "wait"],
             UNCHANGED <<mIsBusy, tx, mIsSignaled, mSignalSem>>
      PROVE  LockInv'
  <2>1. e \in Events
    BY OneOfMany, SettingType DEF FreeAddresses, LockInv, Types, TypeOK
  <2>2. mWaitingList' \in [Transactions -> Seq(Events)]
    <3>1. Top(tx[p]) \in Transactions /\ mWaitingList[Top(tx[p])] \in Seq(Events)
      BY <1>2, Tops DEF LockInv, Types
    <3>2. Append(mWaitingList[Top(tx[p])], e) \in Seq(Events)
      BY <2>1, <3>1
    <3> QED BY <1>5, <3>1, <3>2 DEF notifyWhenAvailable, LockInv, Types
  <2>3. \A t \in Transactions : Range(mWaitingList'[t]) \subseteq Events
    BY <2>2 DEF Range
  <2>4. Types'
    BY <1>1, <1>5, <2>1, <2>2, <2>3 DEF LockInv, Types, TypeOK
  <2>5. Forest'
    BY <1>1, <1>5, SameForest DEF LockInv
  <2>6. Places'
    BY <1>1, <1>2, <1>5, <2>1 DEF LockInv, Types, TypeOK, Places
  <2>7. Held' = Held
    BY <1>1, <1>5 DEF Held, LockInv, Types, TypeOK
  <2>8. OneHolder'
    BY <1>1, <1>5, <2>7, SameHolders DEF LockInv
  <2> QED BY <2>4, <2>5, <2>6, <2>8 DEF LockInv
<1> QED BY <1>3, <1>4, <1>5 DEF waitUntilAvailable

LEMMA LockSignaled ==
    ASSUME LockInv, UNCHANGED setting, NEW p \in Threads, waitSignaled(p) \/ waitTimedOut(p)
    PROVE  LockInv'
<1> USE NoneIsNull DEF waitSignaled, waitTimedOut, At, Goto, treeVars, ageVars, eventVars
<1>1. pc[p] = "wait" /\ p # GC /\ p \in Procs
      /\ UNCHANGED <<treeVars, ageVars, mWaitingList, allocated, mIsSignaled, mListMutex,
                     doomed, tx, ev, err>>
  BY DEF Procs
<1>2. waitTime[p] \in {0, 1} /\ ev[p] \in Events
  BY <1>1 DEF LockInv, Places, Types, TypeOK
<1>3. mSignalSem' \in [Events -> 0..1] /\ waitTime' = [waitTime EXCEPT ![p] = @ + 1]
      /\ waitStatus' \in [Threads -> BOOLEAN]
      /\ \E x \in {"wait", "test"} : /\ pc' = [pc EXCEPT ![p] = x]
                                     /\ x = "wait" => waitTime[p] = 0
  <2>1. CASE waitSignaled(p)
    BY <1>2, <2>1 DEF LockInv, Types, TypeOK
  <2>2. CASE waitTimedOut(p)
    <3>1. waitTime[p] + 1 < 2 <=> waitTime[p] = 0
      BY <1>2
    <3>2. \/ waitTime[p] = 0 /\ pc' = [pc EXCEPT ![p] = "wait"]
          \/ waitTime[p] # 0 /\ pc' = [pc EXCEPT ![p] = "test"]
      BY <2>2, <3>1
    <3>3. waitStatus' \in [Threads -> BOOLEAN] /\ mSignalSem' \in [Events -> 0..1]
          /\ waitTime' = [waitTime EXCEPT ![p] = @ + 1]
      BY <2>2 DEF LockInv, Types, TypeOK
    <3> QED BY <3>2, <3>3
  <2> QED BY <2>1, <2>2
<1> HIDE DEF waitSignaled, waitTimedOut
<1>4. PICK x \in {"wait", "test"} : /\ pc' = [pc EXCEPT ![p] = x]
                                    /\ x = "wait" => waitTime[p] = 0
  BY <1>3
<1>5. Types'
  BY <1>1, <1>2, <1>3, <1>4 DEF LockInv, Types, TypeOK
<1>6. Forest'
  BY <1>1, SameForest DEF LockInv
<1>7. Places'
  BY <1>1, <1>2, <1>3, <1>4 DEF LockInv, Types, TypeOK, Places
<1>8. Held' = Held
  BY <1>1, <1>4 DEF Held, LockInv, Types, TypeOK
<1>9. OneHolder'
  BY <1>1, <1>8, SameHolders DEF LockInv
<1> QED BY <1>5, <1>6, <1>7, <1>9 DEF LockInv

\* OsEvent::signal returns.
LEMMA ReturnPlaces ==
    ASSUME LockInv, NEW p \in Procs, pc[p] \in {"test", "post"}, Return(p),
           ev' = [ev EXCEPT ![p] = NULL], UNCHANGED <<doomed, tx, waitTime, mIsBusy>>
    PROVE  /\ Places' /\ Held' = Held
           /\ mListMutex' \in Procs \cup {NULL} /\ ev' \in [Procs -> Events \cup {NULL}]
           /\ pc' \in [Procs -> {"idle", "hold", "retry", "wait", "test", "set", "post",
                                 "after", "sweep"}]
<1> USE NoneIsNull DEF Goto, Procs
<1>1. CASE p = GC
  BY <1>1 DEF Return, LockInv, Types, TypeOK, Places, Held
<1>2. CASE p # GC /\ mListMutex = p
  <2>1. pc' = [pc EXCEPT ![p] = "idle"] /\ mListMutex' = NULL /\ p \in Threads
    BY <1>2 DEF Return
  <2>2. Places'
    BY <1>2, <2>1 DEF LockInv, Types, TypeOK, Places
  <2> QED BY <1>2, <2>1, <2>2 DEF LockInv, Types, TypeOK, Held
<1>3. CASE p # GC /\ mListMutex # p
  <2>1. pc' = [pc EXCEPT ![p] = "after"] /\ mListMutex' = mListMutex /\ p \in Threads
    BY <1>3 DEF Return
  <2>2. Places'
    BY <1>3, <2>1 DEF LockInv, Types, TypeOK, Places
  <2> QED BY <1>3, <2>1, <2>2 DEF LockInv, Types, TypeOK, Held
<1> QED BY <1>1, <1>2, <1>3

\* OsEvent::signal goes on.
LEMMA GoOnPlaces ==
    ASSUME LockInv, NEW p \in Procs, pc[p] \in {"test", "set"},
           NEW x \in {"set", "post"}, Goto(p, x),
           UNCHANGED <<mListMutex, ev, doomed, tx, waitTime, mIsBusy>>
    PROVE  /\ Places' /\ Held' = Held
           /\ pc' \in [Procs -> {"idle", "hold", "retry", "wait", "test", "set", "post",
                                 "after", "sweep"}]
BY NoneIsNull DEF Goto, Procs, LockInv, Types, TypeOK, Places, Held

LEMMA LockSignal ==
    ASSUME LockInv, UNCHANGED setting, NEW p \in Procs,
           signalTest(p) \/ signalSet(p) \/ signalPost(p)
    PROVE  LockInv'
<1> USE DEF treeVars, ageVars, eventVars
<1>1. UNCHANGED <<mTransactions, parent, mIsBusy, complete, age, unused, mWaitingList,
                  doomed, tx, waitTime, waitStatus>>
      /\ pc[p] \in {"test", "set", "post"}
  BY DEF signalTest, signalSet, signalPost, UNCHANGED_BY_SIGNAL, At
<1>2. ev[p] \in Events
  BY <1>1 DEF LockInv, Places, Types, TypeOK, Procs
<1>3. /\ allocated' \subseteq Events
      /\ mIsSignaled' \in [Events -> BOOLEAN]
      /\ mSignalSem' \in [Events -> 0..1]
      /\ err' \in {"none", "event", "assert", "transaction"}
  <2>1. CASE signalTest(p)
    <3>1. CASE ev[p] \notin allocated \/ ~mIsSignaled[ev[p]]
      BY <2>1, <3>1 DEF signalTest, LockInv, Types, TypeOK
    <3>2. CASE ev[p] \in allocated /\ mIsSignaled[ev[p]]
      <4>1. /\ allocated' = allocated \ {ev[p]} /\ err' = err
            /\ mIsSignaled' = [mIsSignaled EXCEPT ![ev[p]] = FALSE]
            /\ mSignalSem' = [mSignalSem EXCEPT ![ev[p]] = 0]
        BY <2>1, <3>2 DEF signalTest
      <4> QED BY <1>2, <4>1 DEF LockInv, Types, TypeOK
    <3> QED BY <3>1, <3>2
  <2>2. CASE signalSet(p)
    BY <1>2, <2>2 DEF signalSet, LockInv, Types, TypeOK
  <2>3. CASE signalPost(p)
    BY <1>2, <2>3 DEF signalPost, LockInv, Types, TypeOK
  <2> QED BY <2>1, <2>2, <2>3
<1>4. \/ UNCHANGED <<pc, mListMutex, ev>>
      \/ pc[p] \in {"test", "post"} /\ Return(p) /\ ev' = [ev EXCEPT ![p] = NULL]
      \/ pc[p] \in {"test", "set"} /\ UNCHANGED <<mListMutex, ev>>
         /\ \E x \in {"set", "post"} : Goto(p, x)
  BY DEF signalTest, signalSet, signalPost, At
<1>5. /\ Places' /\ Held' = Held
      /\ mListMutex' \in Procs \cup {NULL} /\ ev' \in [Procs -> Events \cup {NULL}]
      /\ pc' \in [Procs -> {"idle", "hold", "retry", "wait", "test", "set", "post",
                            "after", "sweep"}]
  <2>1. CASE UNCHANGED <<pc, mListMutex, ev>>
    BY <1>1, <2>1 DEF LockInv, Places, Held, Types, TypeOK
  <2>2. CASE pc[p] \in {"test", "post"} /\ Return(p) /\ ev' = [ev EXCEPT ![p] = NULL]
    BY <1>1, <2>2, ReturnPlaces
  <2>3. CASE pc[p] \in {"test", "set"} /\ UNCHANGED <<mListMutex, ev>>
             /\ \E x \in {"set", "post"} : Goto(p, x)
    BY <1>1, <2>3, GoOnPlaces DEF LockInv, Types, TypeOK
  <2> QED BY <1>4, <2>1, <2>2, <2>3
<1>6. Types'
  BY <1>1, <1>3, <1>5 DEF LockInv, Types, TypeOK
<1>7. Forest'
  BY <1>1, SameForest DEF LockInv
<1>8. OneHolder'
  BY <1>1, <1>5, SameHolders DEF LockInv
<1> QED BY <1>5, <1>6, <1>7, <1>8 DEF LockInv

LEMMA LockDone ==
    ASSUME LockInv, UNCHANGED setting, NEW p \in Threads, waitDone(p)
    PROVE  LockInv'
<1> USE NoneIsNull DEF waitDone, At, Goto, treeVars, ageVars, eventVars
<1>1. pc[p] = "after" /\ p # GC /\ p \in Procs /\ mListMutex # p
      /\ UNCHANGED <<treeVars, ageVars, mWaitingList, eventVars, mListMutex, doomed, ev>>
  BY DEF Procs, LockInv, Places
<1>2. \/ UNCHANGED <<tx, pc, waitTime>>
      \/ /\ waitTime' = [waitTime EXCEPT ![p] = 0]
         /\ \/ pc' = [pc EXCEPT ![p] = "retry"] /\ tx' = tx
            \/ pc' = [pc EXCEPT ![p] = "idle"] /\ tx' = [tx EXCEPT ![p] = NULL]
  OBVIOUS
<1>3. waitStatus' \in [Threads -> BOOLEAN] /\ err' \in {"none", "event", "assert", "transaction"}
  BY DEF LockInv, Types, TypeOK
<1> HIDE DEF waitDone
<1>4. /\ waitTime' \in [Threads -> 0..2] /\ tx' \in [Threads -> Transactions \cup {NULL}]
      /\ pc' \in [Procs -> {"idle", "hold", "retry", "wait", "test", "set", "post",
                            "after", "sweep"}]
      /\ \A q \in Procs \ {p} : pc'[q] = pc[q]
      /\ \A q \in Threads \ {p} : tx'[q] = tx[q] /\ waitTime'[q] = waitTime[q]
      /\ \/ pc'[p] = "after" /\ tx'[p] = tx[p] /\ waitTime'[p] = waitTime[p]
         \/ pc'[p] = "retry" /\ tx'[p] = tx[p] /\ waitTime'[p] = 0
         \/ pc'[p] = "idle" /\ tx'[p] = NULL /\ waitTime'[p] = 0
  <2>1. CASE UNCHANGED <<tx, pc, waitTime>>
    BY <1>1, <2>1 DEF LockInv, Types, TypeOK
  <2>2. CASE /\ waitTime' = [waitTime EXCEPT ![p] = 0]
             /\ pc' = [pc EXCEPT ![p] = "retry"] /\ tx' = tx
    BY <1>1, <2>2 DEF LockInv, Types, TypeOK
  <2>3. CASE /\ waitTime' = [waitTime EXCEPT ![p] = 0]
             /\ pc' = [pc EXCEPT ![p] = "idle"] /\ tx' = [tx EXCEPT ![p] = NULL]
    BY <1>1, <2>3 DEF LockInv, Types, TypeOK
  <2> QED BY <1>2, <2>1, <2>2, <2>3
<1>5. Types'
  BY <1>1, <1>4, <1>3 DEF LockInv, Types, TypeOK
<1>6. Forest'
  BY <1>1, SameForest DEF LockInv
<1>7. Places'
  BY <1>1, <1>4 DEF LockInv, Places, Procs
<1>8. Held' = Held /\ \A q \in Held : tx'[q] = tx[q]
  BY <1>1, <1>4 DEF Held, Procs
<1>9. OneHolder'
  BY <1>1, <1>8, SameHolders DEF LockInv
<1> QED BY <1>5, <1>6, <1>7, <1>9 DEF LockInv

\* A sequence of events without its first is one.
LEMMA TailType ==
    ASSUME NEW s \in Seq(Events), s # <<>>
    PROVE  Head(s) \in Events /\ Tail(s) \in Seq(Events)
OBVIOUS

\* What markAvailable does to the trees.
LEMMA ReleaseFacts ==
    ASSUME LockInv, NEW p \in Threads, markAvailable(p)
    PROVE  /\ tx[p] \in mTransactions /\ Top(tx[p]) \in mTransactions /\ p \in Held
           /\ Held' = Held \ {p} /\ tx'[p] = NULL
           /\ \A q \in Threads \ {p} : tx'[q] = tx[q] /\ pc'[q] = pc[q]
           /\ mIsBusy' \in [Transactions -> BOOLEAN]
           /\ \A s \in Transactions :
                mIsBusy'[s] <=> mIsBusy[s] /\ ~(s \in mTransactions /\ Top(s) = Top(tx[p]))
           /\ age' \in [Transactions -> 0..OLDEST] /\ unused' \in [Transactions -> 0..OLDEST]
           /\ \A s \in Transactions :
                IF s \in mTransactions /\ Top(s) = Top(tx[p])
                THEN /\ age'[s] = IF complete[s] THEN age[s]
                                  ELSE IF complete[Top(tx[p])] THEN age[Top(tx[p])] ELSE 0
                     /\ unused'[s] = IF complete[Top(tx[p])] THEN unused[s] ELSE 0
                ELSE age'[s] = age[s] /\ unused'[s] = unused[s]
           /\ \/ /\ mWaitingList[Top(tx[p])] = <<>>
                 /\ pc' = [pc EXCEPT ![p] = "idle"] /\ UNCHANGED <<mWaitingList, ev, mListMutex>>
              \/ /\ mWaitingList[Top(tx[p])] # <<>>
                 /\ mWaitingList' = [mWaitingList EXCEPT ![Top(tx[p])] = Tail(@)]
                 /\ ev' = [ev EXCEPT ![p] = Head(mWaitingList[Top(tx[p])])]
                 /\ mListMutex' = p /\ pc' = [pc EXCEPT ![p] = "test"]
           /\ UNCHANGED <<mTransactions, parent, complete, allocated, mIsSignaled, mSignalSem,
                          doomed, waitTime, waitStatus, err>>
           /\ mListMutex = NULL /\ err = "none" /\ pc[p] = "hold"
           /\ tx' = [tx EXCEPT ![p] = NULL]
<1> USE NoneIsNull
<1> DEFINE t == Top(tx[p])
<1>1. /\ touch(t) /\ mIsBusy' = [s \in Transactions |-> mIsBusy[s] /\ s \notin Tree(t)]
      /\ signalNextAvailable(p, t) /\ tx' = [tx EXCEPT ![p] = NULL]
      /\ UNCHANGED <<mTransactions, parent, complete, allocated, mIsSignaled, mSignalSem,
                     doomed, waitTime, waitStatus, err>>
      /\ mListMutex = NULL /\ err = "none" /\ pc[p] = "hold"
  BY DEF markAvailable, At, eventVars
<1>2. p \in Held /\ p \in Procs
  BY <1>1 DEF Held, Procs
<1>3. tx[p] \in mTransactions /\ tx[p] \in Transactions
  BY <1>2 DEF LockInv, OneHolder, Types, TypeOK
<1>4. t \in mTransactions /\ t \in Transactions /\ Top(t) = t
  BY <1>3, Tops DEF LockInv
<1> HIDE DEF t
<1>5. \A s : s \in Tree(t) <=> s \in mTransactions /\ Top(s) = t
  BY <1>4 DEF Tree
<1>6. /\ mIsBusy' \in [Transactions -> BOOLEAN]
      /\ \A s \in Transactions : mIsBusy'[s] <=> mIsBusy[s] /\ s \notin Tree(t)
  BY <1>1 DEF LockInv, Types, TypeOK
<1>7. age \in [Transactions -> 0..OLDEST] /\ unused \in [Transactions -> 0..OLDEST]
      /\ OLDEST \in Nat
  BY Oldest DEF LockInv, Types, TypeOK
<1>8. /\ age' \in [Transactions -> 0..OLDEST] /\ unused' \in [Transactions -> 0..OLDEST]
      /\ \A s \in Transactions :
           IF s \in Tree(t)
           THEN /\ age'[s] = IF complete[s] THEN age[s] ELSE IF complete[t] THEN age[t] ELSE 0
                /\ unused'[s] = IF complete[t] THEN unused[s] ELSE 0
           ELSE age'[s] = age[s] /\ unused'[s] = unused[s]
  BY <1>1, <1>4, <1>7 DEF touch
<1>9. \/ /\ mWaitingList[t] = <<>>
         /\ pc' = [pc EXCEPT ![p] = "idle"] /\ UNCHANGED <<mWaitingList, ev, mListMutex>>
      \/ /\ mWaitingList[t] # <<>>
         /\ mWaitingList' = [mWaitingList EXCEPT ![t] = Tail(@)]
         /\ ev' = [ev EXCEPT ![p] = Head(mWaitingList[t])]
         /\ mListMutex' = p /\ pc' = [pc EXCEPT ![p] = "test"]
  BY <1>1 DEF signalNextAvailable, Goto
<1>10. pc'[p] # "hold" /\ \A q \in Threads \ {p} : pc'[q] = pc[q]
  BY <1>2, <1>9 DEF LockInv, Types, TypeOK, Procs
<1>11. Held' = Held \ {p}
  BY <1>10 DEF Held
<1>12. tx'[p] = NULL /\ \A q \in Threads \ {p} : tx'[q] = tx[q]
  BY <1>1 DEF LockInv, Types, TypeOK
<1> QED BY <1>1, <1>2, <1>3, <1>4, <1>5, <1>6, <1>8, <1>9, <1>10, <1>11, <1>12 DEF t

LEMMA LockRelease ==
    ASSUME LockInv, UNCHANGED setting, NEW p \in Threads, markAvailable(p)
    PROVE  LockInv'
<1> USE NoneIsNull
<1> DEFINE t == Top(tx[p])
<1>1. /\ tx[p] \in mTransactions /\ t \in mTransactions /\ t \in Transactions /\ p \in Held
      /\ p \in Procs /\ p # GC
      /\ Held' = Held \ {p} /\ \A q \in Held' : tx'[q] = tx[q]
      /\ tx' = [tx EXCEPT ![p] = NULL]
      /\ mIsBusy' \in [Transactions -> BOOLEAN]
      /\ \A s \in Transactions :
                mIsBusy'[s] <=> mIsBusy[s] /\ ~(s \in mTransactions /\ Top(s) = t)
      /\ age' \in [Transactions -> 0..OLDEST] /\ unused' \in [Transactions -> 0..OLDEST]
      /\ \A s \in Transactions \ mTransactions : age'[s] = age[s] /\ unused'[s] = unused[s]
      /\ mListMutex = NULL /\ pc[p] = "hold"
      /\ UNCHANGED <<mTransactions, parent, complete, allocated, mIsSignaled, mSignalSem,
                     doomed, waitTime, waitStatus, err>>
  BY ReleaseFacts DEF Procs, Held, LockInv, Types, TypeOK
<1>2. \/ /\ mWaitingList[t] = <<>>
         /\ pc' = [pc EXCEPT ![p] = "idle"] /\ UNCHANGED <<mWaitingList, ev, mListMutex>>
      \/ /\ mWaitingList[t] # <<>>
         /\ mWaitingList' = [mWaitingList EXCEPT ![t] = Tail(@)]
         /\ ev' = [ev EXCEPT ![p] = Head(mWaitingList[t])]
         /\ mListMutex' = p /\ pc' = [pc EXCEPT ![p] = "test"]
  BY ReleaseFacts
<1> HIDE DEF t
<1>3. Types' /\ Places'
  <2>1. doomed = {} /\ mWaitingList \in [Transactions -> Seq(Events)]
    BY <1>1 DEF LockInv, Places, Types
  <2>2. CASE pc' = [pc EXCEPT ![p] = "idle"] /\ UNCHANGED <<mWaitingList, ev, mListMutex>>
    <3>1. Types'
      BY <1>1, <2>2 DEF LockInv, Types, TypeOK
    <3>2. Places'
      BY <1>1, <2>1, <2>2 DEF LockInv, Types, TypeOK, Places
    <3> QED BY <3>1, <3>2
  <2>3. CASE /\ mWaitingList[t] # <<>>
             /\ mWaitingList' = [mWaitingList EXCEPT ![t] = Tail(@)]
             /\ ev' = [ev EXCEPT ![p] = Head(mWaitingList[t])]
             /\ mListMutex' = p /\ pc' = [pc EXCEPT ![p] = "test"]
    <3>1. PICK e \in Events, s \in Seq(Events) :
                e = Head(mWaitingList[t]) /\ s = Tail(mWaitingList[t])
      BY <1>1, <2>1, <2>3, TailType
    <3>2. /\ ev' = [ev EXCEPT ![p] = e] /\ mWaitingList' = [mWaitingList EXCEPT ![t] = s]
          /\ mListMutex' = p /\ pc' = [pc EXCEPT ![p] = "test"]
      BY <2>3, <3>1
    <3>3. mWaitingList' \in [Transactions -> Seq(Events)]
      BY <1>1, <2>1, <3>2
    <3>4. \A u \in Transactions : Range(mWaitingList'[u]) \subseteq Events
      BY <3>3 DEF Range
    <3>5. Types'
      BY <1>1, <3>2, <3>3, <3>4 DEF LockInv, Types, TypeOK
    <3>6. Places'
      BY <1>1, <2>1, <3>2 DEF LockInv, Types, TypeOK, Places
    <3> QED BY <3>5, <3>6
  <2> QED BY <1>2, <2>2, <2>3
<1>4. Forest'
  BY <1>1 DEF LockInv, Types, TypeOK, Forest
<1>5. OneHolder'
  <2>1. \A s \in mTransactions : s \in Transactions
    BY DEF LockInv, Types, TypeOK
  <2>2. \A s \in mTransactions : mIsBusy'[s] <=> \E q \in Held' : Top(tx'[q]) = Top(s)
    <3> SUFFICES ASSUME NEW s \in mTransactions
                 PROVE  mIsBusy'[s] <=> \E q \in Held' : Top(tx'[q]) = Top(s)
      OBVIOUS
    <3>1. mIsBusy[s] <=> \E q \in Held : Top(tx[q]) = Top(s)
      BY DEF LockInv, OneHolder
    <3>2. mIsBusy'[s] <=> mIsBusy[s] /\ Top(s) # t
      BY <1>1, <2>1
    <3>3. \A q \in Held \ {p} : Top(tx[q]) # t
      BY <1>1 DEF LockInv, OneHolder, t
    <3> QED BY <1>1, <3>1, <3>2, <3>3 DEF t
  <2>3. \A q \in Held' : tx'[q] \in mTransactions
    BY <1>1 DEF LockInv, OneHolder
  <2>4. \A q, r \in Held' : q # r => Top(tx'[q]) # Top(tx'[r])
    BY <1>1 DEF LockInv, OneHolder
  <2> QED BY <1>1, <2>2, <2>3, <2>4 DEF OneHolder, Top
<1> QED BY <1>3, <1>4, <1>5 DEF LockInv

LEMMA LockChoose ==
    ASSUME LockInv, UNCHANGED setting, removeOldTransactions
    PROVE  LockInv'
<1> USE NoneIsNull DEF treeVars, ageVars, eventVars, callVars
<1>1. /\ UNCHANGED <<treeVars, ageVars, mWaitingList, eventVars, callVars, err>>
      /\ mListMutex = NULL /\ mListMutex' = GC /\ pc[GC] = "idle" /\ GC \in Procs
      /\ pc' = [pc EXCEPT ![GC] = "sweep"] /\ doomed' = TransactionsToBeDeleted
  BY DEF removeOldTransactions, At, Goto, Procs
<1>2. doomed' \subseteq mTransactions /\ \A t \in doomed' : ~mIsBusy[t]
  BY <1>1 DEF TransactionsToBeDeleted, Children, Finished
<1>3. Types'
  BY <1>1, <1>2 DEF LockInv, Types, TypeOK
<1>4. Forest'
  BY <1>1, SameForest DEF LockInv
<1>5. Places'
  BY <1>1, <1>2 DEF LockInv, Types, TypeOK, Places
<1>6. Held' = Held
  BY <1>1 DEF Held, LockInv, Types, TypeOK
<1>7. OneHolder'
  BY <1>1, <1>6, SameHolders DEF LockInv
<1> QED BY <1>3, <1>4, <1>5, <1>7 DEF LockInv

\* What signalAllAvailable does.
LEMMA SweepFacts ==
    ASSUME LockInv, signalAllAvailable
    PROVE  \E t \in Transactions, e \in Events, s \in Seq(Events) :
             /\ \E d \in doomed : t = Top(d)
             /\ mWaitingList[t] # <<>> /\ e = Head(mWaitingList[t]) /\ s = Tail(mWaitingList[t])
             /\ mWaitingList' = [mWaitingList EXCEPT ![t] = s]
             /\ ev' = [ev EXCEPT ![GC] = e]
             /\ pc[GC] = "sweep" /\ pc' = [pc EXCEPT ![GC] = "test"]
             /\ err = "none" /\ mListMutex = GC
             /\ UNCHANGED <<mTransactions, parent, mIsBusy, complete, age, unused, allocated,
                            mIsSignaled, mSignalSem, mListMutex, doomed, tx, waitTime,
                            waitStatus, err>>
<1> USE DEF treeVars, ageVars, eventVars
<1>1. PICK t \in {Top(s) : s \in doomed} :
         /\ mWaitingList[t] # <<>>
         /\ mWaitingList' = [mWaitingList EXCEPT ![t] = Tail(@)]
         /\ ev' = [ev EXCEPT ![GC] = Head(mWaitingList[t])]
  BY DEF signalAllAvailable
<1>2. t \in Transactions /\ mWaitingList[t] \in Seq(Events)
  BY <1>1, Tops DEF LockInv, Types, TypeOK
<1>3. PICK e \in Events, s \in Seq(Events) :
                e = Head(mWaitingList[t]) /\ s = Tail(mWaitingList[t])
  BY <1>1, <1>2, TailType
<1>4. mListMutex = GC
  BY DEF signalAllAvailable, At, LockInv, Places
<1> QED BY <1>1, <1>2, <1>3, <1>4 DEF signalAllAvailable, At, Goto

LEMMA LockSweep ==
    ASSUME LockInv, UNCHANGED setting, signalAllAvailable
    PROVE  LockInv'
<1> USE NoneIsNull
<1>1. PICK t \in Transactions, e \in Events, s \in Seq(Events) :
             /\ mWaitingList' = [mWaitingList EXCEPT ![t] = s]
             /\ ev' = [ev EXCEPT ![GC] = e]
             /\ pc[GC] = "sweep" /\ pc' = [pc EXCEPT ![GC] = "test"]
             /\ UNCHANGED <<mTransactions, parent, mIsBusy, complete, age, unused, allocated,
                            mIsSignaled, mSignalSem, mListMutex, doomed, tx, waitTime,
                            waitStatus, err>>
  BY SweepFacts
<1>2. mWaitingList' \in [Transactions -> Seq(Events)] /\ GC \in Procs
  BY <1>1 DEF LockInv, Types, Procs
<1>3. \A u \in Transactions : Range(mWaitingList'[u]) \subseteq Events
  BY <1>2 DEF Range
<1>4. Types'
  BY <1>1, <1>2, <1>3 DEF LockInv, Types, TypeOK
<1>5. Forest'
  BY <1>1, SameForest DEF LockInv
<1>6. Places'
  BY <1>1, <1>2 DEF LockInv, Types, TypeOK, Places
<1>7. Held' = Held
  BY <1>1 DEF Held, LockInv, Types, TypeOK
<1>8. OneHolder'
  BY <1>1, <1>7, SameHolders DEF LockInv
<1> QED BY <1>4, <1>5, <1>6, <1>8 DEF LockInv

\* What deleteTransactions does to the trees. A tree that loses a transaction is
\* not busy.
LEMMA DeleteFacts ==
    ASSUME LockInv, deleteTransactions
    PROVE  /\ parent' \in Links /\ Grounded(parent')
           /\ parent' = RemainingLinks
           /\ \A s \in Transactions :
                /\ Top(s)' \in Transactions
                /\ Top(Top(s)') = Top(s)
                /\ s \notin doomed => Top(s)' \notin doomed
                /\ (\A d \in doomed : Top(d) # Top(s)) => Top(s)' = Top(s)
           /\ \A s \in mTransactions :
                mIsBusy[s] => \A d \in doomed : Top(d) # Top(s)
           /\ doomed \subseteq mTransactions /\ mTransactions' = mTransactions \ doomed
           /\ Held' = Held
           /\ UNCHANGED <<mIsBusy, mWaitingList, allocated, mIsSignaled, mSignalSem,
                          tx, ev, waitTime, waitStatus, err>>
           /\ pc' = [pc EXCEPT ![GC] = "idle"] /\ mListMutex = GC /\ mListMutex' = NULL
           /\ doomed' = {} /\ err = "none" /\ pc[GC] = "sweep"
<1> USE NoneIsNull DEF eventVars, callVars
<1>1. parent' = RemainingLinks /\ pc[GC] = "sweep" /\ err = "none"
  BY DEF deleteTransactions, At
<1>2. parent \in Links /\ Grounded(parent) /\ doomed \in SUBSET Transactions
      /\ doomed \subseteq mTransactions
  BY Tops DEF LockInv, Types, TypeOK
<1>3. PICK v : v = parent'
  OBVIOUS
<1>4. v = [s \in Transactions |-> IF s \in doomed \/ parent[s] \in doomed THEN NULL ELSE parent[s]]
  BY <1>1, <1>3 DEF RemainingLinks
<1>5. /\ v \in Links /\ Grounded(v)
      /\ \A s \in Transactions : TopMost(parent, TopMost(v, s)) = TopMost(parent, s)
      /\ \A s \in Transactions \ doomed : TopMost(v, s) \notin doomed
      /\ \A s \in Transactions :
           (\A d \in doomed : TopMost(parent, d) # TopMost(parent, s))
             => TopMost(v, s) = TopMost(parent, s)
  BY <1>2, <1>4, CutTops
<1>6. \A s \in Transactions : TopMost(v, s) \in Transactions
  BY <1>5, TopStep
<1>7. \A s \in mTransactions : mIsBusy[s] => \A d \in doomed : Top(d) # Top(s)
  <2> SUFFICES ASSUME NEW s \in mTransactions, mIsBusy[s], NEW d \in doomed, Top(d) = Top(s)
               PROVE  FALSE
    OBVIOUS
  <2>1. mIsBusy[d] <=> mIsBusy[s]
    BY <1>2 DEF LockInv, OneHolder
  <2> QED BY <2>1 DEF LockInv, Places
<1>8. mListMutex = GC
  BY <1>1 DEF LockInv, Places
<1>9. Held' = Held
  BY DEF deleteTransactions, Goto, Held, LockInv, Types, TypeOK, Procs
<1> QED BY <1>1, <1>2, <1>3, <1>5, <1>6, <1>7, <1>8, <1>9 DEF deleteTransactions, Top, Goto

LEMMA LockDelete ==
    ASSUME LockInv, UNCHANGED setting, deleteTransactions
    PROVE  LockInv'
<1> USE NoneIsNull
<1>1. /\ parent' \in Links /\ Grounded(parent')
      /\ parent' = RemainingLinks
      /\ \A s \in Transactions :
                /\ Top(s)' \in Transactions
                /\ Top(Top(s)') = Top(s)
                /\ s \notin doomed => Top(s)' \notin doomed
                /\ (\A d \in doomed : Top(d) # Top(s)) => Top(s)' = Top(s)
      /\ \A s \in mTransactions : mIsBusy[s] => \A d \in doomed : Top(d) # Top(s)
      /\ doomed \subseteq mTransactions /\ mTransactions' = mTransactions \ doomed
      /\ Held' = Held
      /\ UNCHANGED <<mIsBusy, mWaitingList, allocated, mIsSignaled, mSignalSem,
                     tx, ev, waitTime, waitStatus, err>>
      /\ pc' = [pc EXCEPT ![GC] = "idle"] /\ mListMutex = GC /\ mListMutex' = NULL
      /\ doomed' = {} /\ err = "none" /\ pc[GC] = "sweep"
  BY DeleteFacts
<1>2. /\ complete' \in [Transactions -> BOOLEAN] /\ age' \in [Transactions -> 0..OLDEST]
      /\ unused' \in [Transactions -> 0..OLDEST]
      /\ \A t \in Transactions :
           t \in doomed => ~complete'[t] /\ age'[t] = 0 /\ unused'[t] = 0
      /\ \A t \in Transactions \ doomed :
           /\ complete'[t] = complete[t] /\ age'[t] = age[t]
           /\ unused'[t] = IF Top(t)' # Top(t) /\ complete[Top(t)'] THEN OLDEST ELSE unused[t]
  <2>1. /\ complete' \in [Transactions -> BOOLEAN] /\ age' \in [Transactions -> 0..OLDEST]
        /\ \A t \in Transactions : t \in doomed => ~complete'[t] /\ age'[t] = 0
        /\ \A t \in Transactions \ doomed : complete'[t] = complete[t] /\ age'[t] = age[t]
    <3>1. complete \in [Transactions -> BOOLEAN] /\ age \in [Transactions -> 0..OLDEST]
      BY DEF LockInv, Types, TypeOK
    <3>2. /\ complete' = [t \in Transactions |-> complete[t] /\ t \notin doomed]
          /\ age' = [t \in Transactions |-> IF t \in doomed THEN 0 ELSE age[t]]
      BY DEF deleteTransactions
    <3>3. /\ complete' \in [Transactions -> BOOLEAN]
          /\ \A t \in Transactions : t \in doomed => ~complete'[t]
          /\ \A t \in Transactions \ doomed : complete'[t] = complete[t]
      BY <3>1, <3>2
    <3>4. /\ age' \in [Transactions -> 0..OLDEST]
          /\ \A t \in Transactions : t \in doomed => age'[t] = 0
          /\ \A t \in Transactions \ doomed : age'[t] = age[t]
      <4>1. 0 \in 0..OLDEST
        BY Oldest
      <4> QED BY <3>1, <3>2, <4>1
    <3> QED BY <3>3, <3>4
  <2>2. unused' = [t \in Transactions |->
                     IF t \in doomed THEN 0
                     ELSE IF TopMost(parent', t) # Top(t) /\ complete[TopMost(parent', t)]
                          THEN OLDEST ELSE unused[t]]
    BY <1>1 DEF deleteTransactions
  <2>3. \A t : TopMost(parent', t) = Top(t)'
    BY DEF Top
  <2>4. /\ unused' \in [Transactions -> 0..OLDEST]
        /\ \A t \in Transactions : t \in doomed => unused'[t] = 0
        /\ \A t \in Transactions \ doomed :
             unused'[t] = IF Top(t)' # Top(t) /\ complete[Top(t)'] THEN OLDEST ELSE unused[t]
    BY <2>2, <2>3, Oldest DEF LockInv, Types, TypeOK
  <2> QED BY <2>1, <2>4
<1>3. Types'
  BY <1>1, <1>2, GC \in Procs DEF LockInv, Types, TypeOK, Procs, Links
<1>4. Forest'
  <2>1. \A t \in Transactions \ mTransactions : unused'[t] = 0
    <3> SUFFICES ASSUME NEW t \in Transactions \ mTransactions PROVE unused'[t] = 0
      OBVIOUS
    <3>1. Top(t) = t /\ Top(Top(t)') = t
      BY <1>1, Tops DEF LockInv
    <3>2. Top(t)' \notin mTransactions
      BY <3>1, Tops DEF LockInv
    <3>3. Top(t)' = t
      BY <1>1, <3>1, <3>2, Tops DEF LockInv
    <3> QED BY <1>1, <1>2, <3>1, <3>3 DEF LockInv, Forest
  <2>2. \A t \in Transactions \ mTransactions' :
         ~mIsBusy[t] /\ parent'[t] = NULL /\ ~complete'[t] /\ age'[t] = 0 /\ unused'[t] = 0
    BY <1>1, <1>2, <2>1 DEF RemainingLinks, LockInv, Forest, Places
  <2>3. \A t \in Transactions :
         parent'[t] # NULL => /\ parent'[t] \in mTransactions'
                              /\ t \in setting.invites <=> parent'[t] \in setting.invites
    BY <1>1 DEF RemainingLinks, LockInv, Forest
  <2> QED BY <1>1, <2>2, <2>3 DEF LockInv, Forest
<1>5. Places'
  BY <1>1 DEF LockInv, Types, TypeOK, Places, Procs
<1>6. OneHolder'
  <2>1. \A q \in Held : /\ tx[q] \in mTransactions' /\ Top(tx[q])' = Top(tx[q])
                        /\ \A d \in doomed : Top(d) # Top(tx[q])
    <3> SUFFICES ASSUME NEW q \in Held
                 PROVE  /\ tx[q] \in mTransactions' /\ Top(tx[q])' = Top(tx[q])
                        /\ \A d \in doomed : Top(d) # Top(tx[q])
      OBVIOUS
    <3>1. tx[q] \in mTransactions /\ mIsBusy[tx[q]] /\ tx[q] \in Transactions
      BY DEF LockInv, OneHolder, Types, TypeOK
    <3>2. \A d \in doomed : Top(d) # Top(tx[q])
      BY <1>1, <3>1
    <3>3. Top(tx[q])' = Top(tx[q])
      BY <1>1, <3>1, <3>2
    <3> QED BY <1>1, <3>1, <3>2, <3>3
  <2>2. \A q, r \in Held : q # r => Top(tx[q])' # Top(tx[r])'
    BY <2>1 DEF LockInv, OneHolder
  <2>3. ASSUME NEW s \in mTransactions'
        PROVE  mIsBusy[s] <=> \E q \in Held : Top(tx[q])' = Top(s)'
    <3>1. s \in mTransactions /\ s \in Transactions
          /\ (mIsBusy[s] <=> \E q \in Held : Top(tx[q]) = Top(s))
      BY <1>1 DEF LockInv, OneHolder, Types, TypeOK
    <3>2. ASSUME NEW q \in Held, Top(tx[q]) = Top(s)
          PROVE  Top(tx[q])' = Top(s)'
      BY <1>1, <2>1, <3>1, <3>2
    <3>3. ASSUME NEW q \in Held, Top(tx[q])' = Top(s)'
          PROVE  Top(tx[q]) = Top(s)
      <4>1. tx[q] \in Transactions
        BY DEF LockInv, OneHolder, Types, TypeOK
      <4> QED BY <1>1, <3>1, <3>3, <4>1
    <3> QED BY <3>1, <3>2, <3>3
  <2> QED BY <1>1, <2>1, <2>2, <2>3 DEF OneHolder
<1> QED BY <1>3, <1>4, <1>5, <1>6 DEF LockInv

LEMMA LockTick ==
    ASSUME LockInv, UNCHANGED setting, Tick
    PROVE  LockInv'
<1> USE DEF Tick, treeVars, eventVars, callVars
<1>1. /\ age' \in [Transactions -> 0..OLDEST] /\ unused' \in [Transactions -> 0..OLDEST]
      /\ \A t \in Transactions \ mTransactions : age'[t] = age[t] /\ unused'[t] = unused[t]
  BY Oldest DEF LockInv, Types, TypeOK
<1>2. Types'
  BY <1>1 DEF LockInv, Types, TypeOK
<1>3. Forest'
  BY <1>1 DEF LockInv, Types, TypeOK, Forest
<1>4. Places'
  BY DEF LockInv, Places
<1>5. Held' = Held
  BY DEF Held
<1>6. OneHolder'
  BY <1>5, SameHolders DEF LockInv
<1> QED BY <1>2, <1>3, <1>4, <1>6 DEF LockInv

LEMMA LockNext == LockInv /\ [Next]_vars => LockInv'
<1> SUFFICES ASSUME LockInv, [Next]_vars
             PROVE  LockInv'
  OBVIOUS
<1>1. CASE Next
  <2>1. \A p \in setting.threads : p \in Threads /\ p \in Procs
    BY SettingType DEF LockInv, Types, TypeOK, Procs
  <2>2. GC \in Procs
    BY DEF Procs
  <2>3. UNCHANGED setting
    BY <1>1 DEF Next, Progress, Collect
  <2>4. ASSUME NEW p \in Threads, p \in Procs,
               \/ newTransaction(p) \/ linkChild(p) \/ completeTransaction(p)
               \/ findTransactionFor(p) \/ waitUntilAvailable(p) \/ waitSignaled(p)
               \/ waitTimedOut(p) \/ signalTest(p) \/ signalSet(p) \/ signalPost(p)
               \/ waitDone(p) \/ markAvailable(p)
        PROVE  LockInv'
    BY <2>3, <2>4, LockNew, LockLink, LockComplete, LockFind, LockWait,
       LockSignaled, LockSignal, LockDone, LockRelease
  <2>5. ASSUME removeOldTransactions \/ signalAllAvailable \/ deleteTransactions \/ Tick
        PROVE  LockInv'
    BY <2>3, <2>5, LockChoose, LockSweep, LockDelete, LockTick
  <2>6. ASSUME signalTest(GC) \/ signalSet(GC) \/ signalPost(GC)
        PROVE  LockInv'
    BY <2>2, <2>3, <2>6, LockSignal
  <2> QED BY <1>1, <2>1, <2>4, <2>5, <2>6 DEF Next, Progress, Collect
<1>2. CASE UNCHANGED vars
  <2> USE <1>2 DEF vars, treeVars, ageVars, eventVars, callVars
  <2>1. Types'
    BY DEF LockInv, Types, TypeOK
  <2>2. Forest'
    BY DEF LockInv, Forest, Lifetime
  <2>3. Places'
    BY DEF LockInv, Places
  <2>4. OneHolder'
    BY DEF LockInv, OneHolder, Held, Top
  <2> QED BY <2>1, <2>2, <2>3, <2>4 DEF LockInv
<1> QED BY <1>1, <1>2

\* findTransactionFor, waitUntilAvailable, markAvailable, linkChild and the
\* collector keep the chains of parents finite and inside the list, and each
\* thread at a place that agrees with what it holds.
THEOREM LockCorrect == Spec => []LockInv
BY LockInit, LockNext, PTL DEF Spec

\* For any number of threads and of transactions, and trees of any depth: a
\* tree is busy exactly while a thread handles it, and one at most does.
THEOREM OneHolderAtATime == Spec => []OneHolder
<1>1. LockInv => OneHolder
  BY DEF LockInv
<1> QED BY <1>1, LockCorrect, PTL

-----------------------------------------------------------------------------
\* Ages.

\* A transaction in progress is not older than it is unused, but for a child of
\* a top that completed in the message that made the child.
Fresh(t) ==
    \/ age[t] <= unused[t]
    \/ complete[Top(t)] /\ parent[t] = Top(t) /\ age[t] = age[Top(t)]

\* Nor is its top, whose stamp it gets from touch.
Covers(t) ==
    \/ age[Top(t)] <= unused[t]
    \/ complete[Top(t)] /\ parent[t] = Top(t)
    \/ ~complete[Top(t)] /\ \E p \in Held : parent[t] = tx[p]

\* When nobody has the tree, its transactions in progress have the age of the
\* top, unless the tree was cut off under a complete one.
Level(t) ==
    \/ mIsBusy[t]
    \/ age[t] = age[Top(t)]
    \/ \A s \in mTransactions : Top(s) = Top(t) => unused[s] = OLDEST

Stamps ==
    \A t \in mTransactions : ~complete[t] => Fresh(t) /\ Covers(t) /\ Level(t)

\* What the collector has chosen was too old, and so were the children that a
\* chosen top leaves behind.
Chosen ==
    /\ \A t \in doomed : ~complete[t] /\ ~complete[Top(t)] => unused[t] > Lifetime(t)
    /\ \A t \in mTransactions \ doomed :
         parent[t] \in doomed /\ parent[parent[t]] = NULL /\ ~complete[t]
         => age[t] <= unused[t]

AgeInv == Stamps /\ Chosen

LEMMA AgeInit == Init => AgeInv
BY DEF Init, AgeInv, Stamps, Chosen

LEMMA NothingChosen ==
    ASSUME doomed' = {}
    PROVE  Chosen'
BY DEF Chosen

LEMMA AgesStay ==
    ASSUME AgeInv, UNCHANGED <<setting, mTransactions, parent, complete, age, unused, doomed>>,
           \A t \in mTransactions : mIsBusy[t] => mIsBusy'[t],
           Held \subseteq Held', \A p \in Held : tx'[p] = tx[p]
    PROVE  AgeInv'
<1>1. Stamps'
  BY DEF AgeInv, Stamps, Fresh, Covers, Level, Top
<1>2. Chosen'
  BY DEF AgeInv, Chosen, Top, Lifetime
<1> QED BY <1>1, <1>2 DEF AgeInv

LEMMA AgesNew ==
    ASSUME LockInv, AgeInv, UNCHANGED setting, NEW p \in Threads, newTransaction(p)
    PROVE  AgeInv'
<1> USE NoneIsNull
<1>1. PICK t \in NewObjects \cap (setting.invites \cup setting.others) :
        /\ mTransactions' = mTransactions \cup {t}
        /\ mIsBusy' = [mIsBusy EXCEPT ![t] = TRUE]
        /\ tx' = [tx EXCEPT ![p] = t]
  BY OneOfMany DEF newTransaction
<1>2. UNCHANGED <<parent, complete, age, unused, doomed>> /\ doomed = {}
  BY DEF newTransaction, ageVars, LockInv, Places
<1>3. t \in Transactions /\ t \notin mTransactions
  BY <1>1 DEF NewObjects
<1>4. Top(t) = t /\ age[t] = 0 /\ unused[t] = 0 /\ \A s \in mTransactions : Top(s) # t
  BY <1>3, Tops DEF LockInv, Forest
<1>5. /\ mIsBusy'[t]
      /\ \A s \in mTransactions : mIsBusy'[s] = mIsBusy[s]
      /\ Held \subseteq Held' /\ \A q \in Held : tx'[q] = tx[q]
  <2>0. mIsBusy \in [Transactions -> BOOLEAN] /\ mTransactions \subseteq Transactions
    BY DEF LockInv, Types, TypeOK
  <2>1. mIsBusy'[t] /\ \A s \in mTransactions : mIsBusy'[s] = mIsBusy[s]
    BY <1>1, <1>3, <2>0
  <2>2. Held \subseteq Held' /\ \A q \in Held : tx'[q] = tx[q]
    BY <1>1 DEF newTransaction, At, Goto, LockInv, Types, TypeOK, Procs, Held
  <2> QED BY <2>1, <2>2
<1>6. Fresh(t)' /\ Covers(t)' /\ Level(t)'
  BY <1>2, <1>4, <1>5 DEF Fresh, Covers, Level, Top
<1>7. ASSUME NEW s \in mTransactions, ~complete[s]
      PROVE  Fresh(s)' /\ Covers(s)' /\ Level(s)'
  <2>1. Fresh(s) /\ Covers(s) /\ Level(s)
    BY <1>7 DEF AgeInv, Stamps
  <2>2. Top(t) = t /\ Top(s) # t
    BY <1>4
  <2>3. Fresh(s)' /\ Covers(s)'
    BY <1>2, <1>5, <2>1 DEF Fresh, Covers, Top
  <2>4. \A u : Top(u)' = Top(u)
    BY <1>2 DEF Top
  <2>5. Level(s)'
    BY <1>1, <1>2, <1>5, <2>1, <2>2, <2>4 DEF Level
  <2> QED BY <2>3, <2>5
<1>8. Stamps'
  BY <1>1, <1>2, <1>6, <1>7 DEF Stamps
<1> QED BY <1>2, <1>8, NothingChosen DEF AgeInv

LEMMA AgesLink ==
    ASSUME LockInv, AgeInv, UNCHANGED setting, NEW p \in Threads, linkChild(p)
    PROVE  AgeInv'
<1> USE NoneIsNull
<1>1. PICK t \in NewObjects \cap SameMethod(tx[p]) :
             /\ t \in Transactions /\ t \notin mTransactions
             /\ tx[p] \in mTransactions /\ tx[p] # t /\ mIsBusy[tx[p]]
             /\ mTransactions' = mTransactions \cup {t}
             /\ parent' = [parent EXCEPT ![t] = tx[p]]
             /\ mIsBusy' = [mIsBusy EXCEPT ![t] = TRUE]
             /\ unused' = [unused EXCEPT ![t] = IF complete[Top(tx[p])] THEN OLDEST ELSE 0]
             /\ \A s \in Transactions \ {t} : Top(s)' = Top(s)
             /\ Top(t)' = Top(tx[p])
             /\ p \in Held /\ Held' = Held
  BY LinkFacts
<1>2. UNCHANGED <<complete, age, doomed, tx>> /\ doomed = {}
  BY DEF linkChild, callVars, LockInv, Places
<1>3. age[t] = 0 /\ ~complete[t]
  BY <1>1 DEF LockInv, Forest
<1>4. Top(tx[p]) \in mTransactions /\ Top(tx[p]) \in Transactions
  BY <1>1, Tops DEF LockInv, Types, TypeOK
<1>5. /\ parent'[t] = tx[p] /\ mIsBusy'[t]
      /\ unused'[t] = IF complete[Top(tx[p])] THEN OLDEST ELSE 0
      /\ \A s \in mTransactions : /\ parent'[s] = parent[s] /\ (mIsBusy'[s] <=> mIsBusy[s])
                                  /\ unused'[s] = unused[s] /\ Top(s)' = Top(s)
      /\ age \in [Transactions -> 0..OLDEST]
  <2>1. /\ parent \in [Transactions -> Transactions \cup {NULL}]
        /\ mIsBusy \in [Transactions -> BOOLEAN] /\ unused \in [Transactions -> 0..OLDEST]
        /\ age \in [Transactions -> 0..OLDEST]
        /\ \A s \in mTransactions : s \in Transactions /\ s # t
    BY <1>1 DEF LockInv, Types, TypeOK
  <2>2. parent'[t] = tx[p] /\ \A s \in mTransactions : parent'[s] = parent[s]
    BY <1>1, <2>1
  <2>3. mIsBusy'[t] /\ \A s \in mTransactions : mIsBusy'[s] <=> mIsBusy[s]
    BY <1>1, <2>1
  <2>4. /\ unused'[t] = IF complete[Top(tx[p])] THEN OLDEST ELSE 0
        /\ \A s \in mTransactions : unused'[s] = unused[s]
    BY <1>1, <2>1
  <2>5. \A s \in mTransactions : Top(s)' = Top(s)
    BY <1>1, <2>1
  <2> QED BY <2>1, <2>2, <2>3, <2>4, <2>5
<1>6. Fresh(t)' /\ Covers(t)' /\ Level(t)'
  <2>1. Fresh(t)'
    BY <1>2, <1>3, <1>5, Oldest DEF Fresh
  <2>2. Covers(t)'
    BY <1>1, <1>2, <1>4, <1>5, Oldest DEF Covers
  <2> QED BY <1>5, <2>1, <2>2 DEF Level
<1>7. ASSUME NEW s \in mTransactions, ~complete[s]
      PROVE  Fresh(s)' /\ Covers(s)' /\ Level(s)'
  <2>1. Fresh(s) /\ Covers(s) /\ Level(s)
    BY <1>7 DEF AgeInv, Stamps
  <2>2. Fresh(s)' /\ Covers(s)'
    BY <1>1, <1>2, <1>5, <2>1 DEF Fresh, Covers
  <2>3. CASE Top(s) = Top(tx[p])
    <3>1. mIsBusy[s]
      BY <1>1, <2>3 DEF LockInv, OneHolder
    <3> QED BY <1>5, <2>2, <3>1 DEF Level
  <2>4. CASE Top(s) # Top(tx[p])
    <3>1. Level(s)'
      <4>1. ASSUME \A u \in mTransactions : Top(u) = Top(s) => unused[u] = OLDEST,
                   NEW u \in mTransactions', Top(u)' = Top(s)'
            PROVE  unused'[u] = OLDEST
        <5>1. u # t
          BY <1>1, <1>5, <2>4, <4>1
        <5> QED BY <1>1, <1>5, <4>1, <5>1
      <4> QED BY <1>2, <1>4, <1>5, <2>1, <4>1 DEF Level
    <3> QED BY <2>2, <3>1
  <2> QED BY <2>3, <2>4
<1>8. Stamps'
  BY <1>1, <1>2, <1>6, <1>7 DEF Stamps
<1> QED BY <1>2, <1>8, NothingChosen DEF AgeInv

LEMMA AgesComplete ==
    ASSUME LockInv, AgeInv, UNCHANGED setting, NEW p \in Threads, completeTransaction(p)
    PROVE  AgeInv'
<1> USE NoneIsNull DEF completeTransaction, ageVars, callVars
<1>1. p \in Held /\ Held' = Held
  BY DEF Held, At
<1>2. tx[p] \in mTransactions /\ tx[p] \in Transactions
  BY <1>1 DEF LockInv, OneHolder, Types, TypeOK
<1>3. /\ complete'[tx[p]]
      /\ \A s \in Transactions : s # tx[p] => complete'[s] = complete[s]
      /\ \A s \in Transactions : complete[s] => complete'[s]
      /\ \A s : Top(s)' = Top(s)
  BY <1>2 DEF LockInv, Types, TypeOK, Top
<1>4. ASSUME NEW s \in mTransactions, ~complete'[s]
      PROVE  Fresh(s)' /\ Covers(s)' /\ Level(s)'
  <2>1. s \in Transactions /\ Top(s) \in Transactions /\ ~complete[s]
    BY <1>3, <1>4, Tops DEF LockInv, Types, TypeOK
  <2>2. Fresh(s) /\ Covers(s) /\ Level(s)
    BY <2>1 DEF AgeInv, Stamps
  <2>3. Fresh(s)'
    BY <1>3, <2>1, <2>2 DEF Fresh
  <2>4. Level(s)'
    BY <1>3, <2>2 DEF Level
  <2>5. CASE Top(s) # tx[p]
    <3>1. Covers(s)'
      BY <1>1, <1>3, <2>1, <2>2, <2>5 DEF Covers
    <3> QED BY <2>3, <2>4, <3>1
  <2>6. CASE Top(s) = tx[p]
    <3>1. ASSUME NEW q \in Held, parent[s] = tx[q]
          PROVE  parent[s] = tx[p]
      <4>1. tx[q] \in mTransactions
        BY DEF LockInv, OneHolder
      <4>2. Top(s) = Top(tx[q])
        BY <2>1, <3>1, <4>1, Tops DEF LockInv, Types, TypeOK
      <4>3. Top(tx[p]) = tx[p]
        BY <2>1, <2>6, Tops DEF LockInv
      <4>4. q = p
        BY <1>1, <2>6, <4>2, <4>3 DEF LockInv, OneHolder
      <4> QED BY <3>1, <4>4
    <3>2. Covers(s)'
      BY <1>1, <1>3, <2>2, <2>6, <3>1 DEF Covers
    <3> QED BY <2>3, <2>4, <3>2
  <2> QED BY <2>5, <2>6
<1>5. Stamps'
  BY <1>4 DEF Stamps
<1>6. Chosen'
  <2>1. \A t \in mTransactions : t \in Transactions /\ Top(t) \in Transactions
    BY Tops DEF LockInv, Types, TypeOK
  <2>2. doomed \subseteq mTransactions
    BY DEF LockInv, Types, TypeOK
  <2> QED BY <1>3, <2>1, <2>2 DEF AgeInv, Chosen, Lifetime
<1> QED BY <1>5, <1>6 DEF AgeInv

LEMMA AgesRelease ==
    ASSUME LockInv, AgeInv, UNCHANGED setting, NEW p \in Threads, markAvailable(p)
    PROVE  AgeInv'
<1> USE NoneIsNull
<1> DEFINE t == Top(tx[p])
<1>1. /\ tx[p] \in mTransactions /\ t \in mTransactions /\ t \in Transactions /\ p \in Held
      /\ Held' = Held \ {p} /\ \A q \in Held' : tx'[q] = tx[q]
      /\ \A s \in Transactions :
                mIsBusy'[s] <=> mIsBusy[s] /\ ~(s \in mTransactions /\ Top(s) = t)
      /\ \A s \in Transactions :
                IF s \in mTransactions /\ Top(s) = t
                THEN /\ age'[s] = IF complete[s] THEN age[s] ELSE IF complete[t] THEN age[t] ELSE 0
                     /\ unused'[s] = IF complete[t] THEN unused[s] ELSE 0
                ELSE age'[s] = age[s] /\ unused'[s] = unused[s]
      /\ mListMutex = NULL
      /\ UNCHANGED <<mTransactions, parent, complete, doomed>>
  BY ReleaseFacts DEF Held, LockInv, Types, TypeOK
<1>2. doomed' = {}
  BY <1>1 DEF LockInv, Places
<1>3. \A s : Top(s)' = Top(s)
  BY <1>1 DEF Top
<1>4. Top(t) = t
  BY <1>1, Tops DEF LockInv, Types, TypeOK
<1> HIDE DEF t
<1>5. age \in [Transactions -> 0..OLDEST] /\ unused \in [Transactions -> 0..OLDEST]
      /\ OLDEST \in Nat
  BY Oldest DEF LockInv, Types, TypeOK
<1>6. ASSUME NEW s \in mTransactions, ~complete[s]
      PROVE  Fresh(s)' /\ Covers(s)' /\ Level(s)'
  <2>1. Fresh(s) /\ Covers(s) /\ Level(s)
    BY <1>6 DEF AgeInv, Stamps
  <2>2. s \in Transactions /\ Top(s) \in mTransactions /\ Top(s) \in Transactions
        /\ Top(Top(s)) = Top(s)
    BY Tops DEF LockInv, Types, TypeOK
  <2>3. CASE Top(s) = t /\ complete[t]
    <3>1. age'[s] = age[t] /\ age'[t] = age[t] /\ unused'[s] = unused[s]
      BY <1>1, <1>4, <1>6, <2>2, <2>3
    <3>2. age[t] <= unused[s] \/ parent[s] = t
      BY <2>1, <2>3 DEF Covers
    <3>3. Top(s)' = t
      BY <1>3, <2>3
    <3>4. complete'[t] /\ parent'[s] = parent[s]
      BY <1>1, <2>3
    <3>5. Fresh(s)'
      BY <3>1, <3>2, <3>3, <3>4 DEF Fresh
    <3>6. Covers(s)'
      BY <3>1, <3>2, <3>3, <3>4 DEF Covers
    <3>7. Level(s)'
      BY <3>1, <3>3 DEF Level
    <3> QED BY <3>5, <3>6, <3>7
  <2>4. CASE Top(s) = t /\ ~complete[t]
    <3>1. age'[s] = 0 /\ age'[t] = 0 /\ unused'[s] = 0
      BY <1>1, <1>4, <1>6, <2>2, <2>4
    <3>2. Top(s)' = t
      BY <1>3, <2>4
    <3>3. 0 <= 0
      OBVIOUS
    <3>4. Fresh(s)'
      BY <3>1, <3>3 DEF Fresh
    <3>5. Covers(s)'
      BY <3>1, <3>2, <3>3 DEF Covers
    <3>6. Level(s)'
      BY <3>1, <3>2 DEF Level
    <3> QED BY <3>4, <3>5, <3>6
  <2>5. CASE Top(s) # t
    <3>1. /\ age'[s] = age[s] /\ unused'[s] = unused[s] /\ age'[Top(s)] = age[Top(s)]
          /\ mIsBusy'[s] <=> mIsBusy[s]
      BY <1>1, <2>2, <2>5
    <3>2. \A u \in mTransactions : Top(u) = Top(s) => unused'[u] = unused[u]
      BY <1>1, <2>5 DEF LockInv, Types, TypeOK
    <3>3. parent[s] # tx[p]
      <4>1. parent[s] = tx[p] => parent[s] # NULL
        BY <1>1 DEF LockInv, Types, TypeOK
      <4>2. parent[s] # NULL => Top(s) = Top(parent[s])
        BY <2>2, Tops DEF LockInv
      <4> QED BY <2>5, <4>1, <4>2 DEF t
    <3>4. Fresh(s)'
      BY <1>1, <1>3, <2>1, <3>1 DEF Fresh
    <3>5. Covers(s)'
      BY <1>1, <1>3, <2>1, <3>1, <3>3 DEF Covers
    <3>6. Level(s)'
      BY <1>1, <1>3, <2>1, <3>1, <3>2 DEF Level
    <3> QED BY <3>4, <3>5, <3>6
  <2> QED BY <2>3, <2>4, <2>5
<1>7. Stamps'
  BY <1>1, <1>6 DEF Stamps
<1> QED BY <1>2, <1>7, NothingChosen DEF AgeInv

LEMMA AgesChoose ==
    ASSUME LockInv, AgeInv, UNCHANGED setting, removeOldTransactions
    PROVE  AgeInv'
<1> USE NoneIsNull
<1>1. /\ UNCHANGED <<mTransactions, parent, mIsBusy, complete, age, unused, tx>>
      /\ pc' = [pc EXCEPT ![GC] = "sweep"] /\ doomed' = TransactionsToBeDeleted
  BY DEF removeOldTransactions, Goto, treeVars, ageVars, callVars
<1>2. Held' = Held
  BY <1>1 DEF Held, LockInv, Types, TypeOK, Procs
<1>3. Stamps'
  BY <1>1, <1>2 DEF AgeInv, Stamps, Fresh, Covers, Level, Top
<1>4. \A t \in mTransactions : /\ age[t] \in Nat /\ unused[t] \in Nat /\ Lifetime(t) \in Nat
                               /\ t \in Transactions /\ t # NULL
  BY LifetimesOrdered DEF LockInv, Types, TypeOK, Lifetime
<1>5. ASSUME NEW t \in doomed', ~complete[t], ~complete[Top(t)]
      PROVE  unused[t] > Lifetime(t)
  <2>1. t \in mTransactions
    BY <1>1 DEF TransactionsToBeDeleted, Children
  <2>2. age[t] > Lifetime(t) \/ \E s \in mTransactions : Finished(s) /\ (t = s \/ parent[t] = s)
    BY <1>1 DEF TransactionsToBeDeleted, Children
  <2>3. ASSUME NEW s \in mTransactions, Finished(s), t = s \/ parent[t] = s
        PROVE  FALSE
    <3>1. complete[s] /\ parent[s] = NULL
      BY <2>3 DEF Finished
    <3>2. Top(t) = s
      BY <1>4, <2>1, <2>3, <3>1, Tops DEF LockInv
    <3> QED BY <1>5, <3>1, <3>2
  <2>4. age[t] <= unused[t]
    BY <1>5, <2>1 DEF AgeInv, Stamps, Fresh
  <2> QED BY <1>4, <2>1, <2>2, <2>3, <2>4
<1>6. ASSUME NEW t \in mTransactions \ doomed', parent[t] \in doomed',
             parent[parent[t]] = NULL, ~complete[t]
      PROVE  age[t] <= unused[t]
  <2> DEFINE r == parent[t]
  <2>1. r \in mTransactions /\ r \in Transactions /\ r # NULL /\ parent[r] = NULL /\ Top(t) = r
    BY <1>1, <1>4, <1>6, Tops DEF TransactionsToBeDeleted, Children, LockInv
  <2>2. CASE age[t] = age[r]
    <3>1. r # t /\ Top(r) = r
      BY <1>6, <2>1, Tops DEF LockInv
    <3>2. ~mIsBusy[r] /\ (mIsBusy[r] <=> mIsBusy[t])
      <4>1. ~mIsBusy[r]
        BY <1>1, <1>6 DEF TransactionsToBeDeleted, Children, Finished
      <4> QED BY <2>1, <3>1, <4>1 DEF LockInv, OneHolder
    <3>3. Lifetime(t) = Lifetime(r)
      BY <1>4, <2>1 DEF Lifetime, LockInv, Forest
    <3>4. age[r] > Lifetime(r) \/ Finished(r)
      BY <1>1, <1>4, <1>6, <2>1 DEF TransactionsToBeDeleted, Children
    <3>5. CASE age[r] > Lifetime(r)
      <4>1. t \in TransactionsToBeDeleted
        BY <2>2, <3>2, <3>3, <3>5 DEF TransactionsToBeDeleted
      <4> QED BY <1>1, <1>6, <4>1
    <3>6. CASE Finished(r)
      <4>1. t \in TransactionsToBeDeleted
        BY <2>1, <3>2, <3>6 DEF TransactionsToBeDeleted, Children
      <4> QED BY <1>1, <1>6, <4>1
    <3> QED BY <3>4, <3>5, <3>6
  <2>3. CASE age[t] # age[r]
    BY <1>6, <2>1, <2>3 DEF AgeInv, Stamps, Fresh
  <2> QED BY <2>2, <2>3
<1>7. Chosen'
  BY <1>1, <1>5, <1>6 DEF Chosen, Top, Lifetime
<1> QED BY <1>3, <1>7 DEF AgeInv

LEMMA AgesDelete ==
    ASSUME LockInv, AgeInv, UNCHANGED setting, deleteTransactions
    PROVE  AgeInv'
<1> USE NoneIsNull
<1>1. /\ parent' \in Links /\ Grounded(parent') /\ parent' = RemainingLinks
      /\ \A s \in Transactions :
                /\ Top(s)' \in Transactions
                /\ Top(Top(s)') = Top(s)
                /\ s \notin doomed => Top(s)' \notin doomed
                /\ (\A d \in doomed : Top(d) # Top(s)) => Top(s)' = Top(s)
      /\ \A s \in mTransactions : mIsBusy[s] => \A d \in doomed : Top(d) # Top(s)
      /\ doomed \subseteq mTransactions /\ mTransactions' = mTransactions \ doomed
      /\ Held' = Held /\ UNCHANGED <<mIsBusy, tx>> /\ doomed' = {}
  BY DeleteFacts
<1>2. \A t \in Transactions \ doomed :
        /\ complete'[t] <=> complete[t]
        /\ age'[t] = age[t]
        /\ unused'[t] = IF Top(t)' # Top(t) /\ complete[Top(t)'] THEN OLDEST ELSE unused[t]
  <2>1. \A t : TopMost(parent', t) = Top(t)'
    BY DEF Top
  <2>2. unused' = [t \in Transactions |->
                     IF t \in doomed THEN 0
                     ELSE IF Top(t)' # Top(t) /\ complete[Top(t)'] THEN OLDEST ELSE unused[t]]
    BY <1>1, <2>1 DEF deleteTransactions
  <2> QED BY <2>2 DEF deleteTransactions
<1>3. age \in [Transactions -> 0..OLDEST] /\ unused \in [Transactions -> 0..OLDEST]
      /\ OLDEST \in Nat
  BY Oldest DEF LockInv, Types, TypeOK
<1>4. ASSUME NEW s \in mTransactions \ doomed, ~complete[s]
      PROVE  Fresh(s)' /\ Covers(s)' /\ Level(s)'
  <2>0. PICK r, new : r = Top(s) /\ new = Top(s)'
    OBVIOUS
  <2> USE <2>0
  <2>1. Fresh(s) /\ Covers(s) /\ Level(s)
    BY <1>4 DEF AgeInv, Stamps
  <2>2. /\ s \in Transactions /\ r \in mTransactions /\ r \in Transactions
        /\ Top(r) = r /\ parent[r] = NULL
        /\ new \in Transactions \ doomed /\ new \in mTransactions /\ Top(new) = r
        /\ age'[s] = age[s] /\ age'[new] = age[new] /\ (complete'[new] <=> complete[new])
    <3>1. s \in Transactions /\ r \in mTransactions /\ r \in Transactions /\ Top(r) = r
          /\ parent[r] = NULL
      BY <1>4, Tops DEF LockInv, Types, TypeOK
    <3>2. new \in Transactions \ doomed /\ Top(new) = r
      BY <1>1, <1>4, <3>1
    <3>3. new \in mTransactions
      BY <3>1, <3>2, Tops DEF LockInv
    <3> QED BY <1>2, <1>4, <3>1, <3>2, <3>3
  <2>3. CASE new = r
    <3>1. unused'[s] = unused[s]
      BY <1>2, <1>4, <2>2, <2>3
    <3>2. parent[s] = r => parent'[s] = r
      BY <1>1, <1>4, <2>2, <2>3 DEF RemainingLinks
    <3>3. Fresh(s)'
      BY <2>1, <2>2, <2>3, <3>1, <3>2 DEF Fresh
    <3>4. ASSUME NEW q \in Held, parent[s] = tx[q]
          PROVE  parent'[s] = tx[q]
      <4>1. tx[q] \in mTransactions /\ mIsBusy[tx[q]]
        BY DEF LockInv, OneHolder
      <4>2. tx[q] \notin doomed
        BY <4>1 DEF LockInv, Places
      <4> QED BY <1>1, <1>4, <2>2, <3>4, <4>2 DEF RemainingLinks
    <3>5. Covers(s)'
      BY <1>1, <2>1, <2>2, <2>3, <3>1, <3>2, <3>4 DEF Covers
    <3>6. ASSUME \A u \in mTransactions : Top(u) = r => unused[u] = OLDEST,
                 NEW u \in mTransactions', Top(u)' = new
          PROVE  unused'[u] = OLDEST
      <4>1. u \in mTransactions /\ u \in Transactions \ doomed
        BY <1>1 DEF LockInv, Types, TypeOK
      <4>2. Top(u) = r
        BY <1>1, <2>2, <2>3, <3>6, <4>1
      <4> QED BY <1>2, <3>6, <4>1, <4>2
    <3>7. Level(s)'
      BY <1>1, <2>1, <2>2, <2>3, <3>6 DEF Level
    <3> QED BY <3>3, <3>5, <3>7
  <2>4. CASE new # r /\ complete[new]
    <3>1. \A u \in mTransactions' : Top(u)' = new => unused'[u] = OLDEST
      <4> SUFFICES ASSUME NEW u \in mTransactions', Top(u)' = new
                   PROVE  unused'[u] = OLDEST
        OBVIOUS
      <4>1. u \in Transactions \ doomed
        BY <1>1 DEF LockInv, Types, TypeOK
      <4>2. Top(u) = r
        BY <1>1, <2>2, <4>1
      <4> QED BY <1>2, <2>4, <4>1, <4>2
    <3>2. unused'[s] = OLDEST
      BY <1>1, <1>4, <3>1
    <3>3. age[s] <= OLDEST /\ age[new] <= OLDEST
      BY <1>3, <2>2
    <3> QED BY <2>2, <3>1, <3>2, <3>3 DEF Fresh, Covers, Level
  <2>5. CASE new # r /\ ~complete[new]
    <3>1. unused'[s] = unused[s] /\ unused'[new] = unused[new]
      <4>1. Top(new)' = new
        BY <1>1, <2>2, TopStep DEF Top
      <4> QED BY <1>2, <1>4, <2>2, <2>5, <4>1
    <3>2. ~mIsBusy[s] /\ ~mIsBusy[new]
      BY <1>1, <1>4, <2>2, <2>5
    <3>3. \A q \in Held : Top(tx[q]) # r
      BY <1>4, <2>2, <3>2 DEF LockInv, OneHolder
    <3>4. parent[s] = r => parent'[s] = NULL /\ r \in doomed /\ new = s
      <4> SUFFICES ASSUME parent[s] = r
                   PROVE  parent'[s] = NULL /\ r \in doomed /\ new = s
        OBVIOUS
      <4>1. CASE r \notin doomed
        <5>1. parent'[s] = r /\ parent'[r] = NULL
          BY <1>1, <1>4, <2>2, <4>1 DEF RemainingLinks
        <5>2. new = r
          BY <1>1, <2>2, <5>1, TopStep DEF Top
        <5> QED BY <2>5, <5>2
      <4>2. CASE r \in doomed
        <5>1. parent'[s] = NULL
          BY <1>1, <2>2, <4>2 DEF RemainingLinks
        <5> QED BY <1>1, <2>2, <4>2, <5>1, TopStep DEF Top
      <4> QED BY <4>1, <4>2
    <3>5. age[s] <= unused[s]
      <4>1. CASE parent[s] = r
        BY <1>4, <2>2, <3>4, <4>1 DEF AgeInv, Chosen
      <4>2. CASE parent[s] # r
        BY <2>1, <4>2 DEF Fresh
      <4> QED BY <4>1, <4>2
    <3>6. Fresh(s)'
      BY <2>2, <3>1, <3>5 DEF Fresh
    <3>7. Level(new) /\ Level(s)
      BY <1>4, <2>1, <2>2, <2>5 DEF AgeInv, Stamps
    <3>8. CASE \A u \in mTransactions : Top(u) = r => unused[u] = OLDEST
      <4>1. unused[s] = OLDEST /\ age[new] <= OLDEST
        BY <1>3, <1>4, <2>2, <3>8
      <4>2. Covers(s)'
        BY <2>2, <3>1, <4>1 DEF Covers
      <4>3. ASSUME NEW u \in mTransactions', Top(u)' = new
            PROVE  unused'[u] = OLDEST
        <5>1. u \in Transactions \ doomed /\ u \in mTransactions
          BY <1>1 DEF LockInv, Types, TypeOK
        <5>2. Top(u) = r
          BY <1>1, <2>2, <4>3, <5>1
        <5> QED BY <1>2, <3>8, <5>1, <5>2
      <4>4. Level(s)'
        BY <4>3 DEF Level
      <4> QED BY <3>6, <4>2, <4>4
    <3>9. CASE age[s] = age[r] /\ age[new] = age[r]
      <4>1. Level(s)'
        BY <2>2, <3>9 DEF Level
      <4>2. CASE parent[s] = r
        <5>1. new = s
          BY <3>4, <4>2
        <5>2. age'[new] <= unused'[s]
          BY <2>2, <3>1, <3>5, <5>1
        <5> QED BY <3>6, <4>1, <5>2 DEF Covers
      <4>3. CASE parent[s] # r
        <5>1. \A q \in Held : parent[s] # tx[q]
          <6> SUFFICES ASSUME NEW q \in Held, parent[s] = tx[q]
                       PROVE  FALSE
            OBVIOUS
          <6>1. tx[q] \in mTransactions /\ tx[q] # NULL
            BY DEF LockInv, OneHolder, Types, TypeOK
          <6>2. Top(s) = Top(tx[q])
            BY <2>2, <6>1, Tops DEF LockInv
          <6> QED BY <3>3, <6>2
        <5>2. age[r] <= unused[s]
          BY <2>1, <4>3, <5>1 DEF Covers
        <5>3. age'[new] <= unused'[s]
          BY <2>2, <3>1, <3>9, <5>2
        <5> QED BY <3>6, <4>1, <5>3 DEF Covers
      <4> QED BY <4>2, <4>3
    <3> QED BY <2>2, <3>2, <3>7, <3>8, <3>9 DEF Level
  <2> QED BY <2>3, <2>4, <2>5
<1>5. Stamps'
  <2>1. \A s \in mTransactions' : s \in mTransactions \ doomed /\ (complete'[s] <=> complete[s])
    BY <1>1, <1>2 DEF LockInv, Types, TypeOK
  <2> QED BY <1>4, <2>1 DEF Stamps
<1> QED BY <1>1, <1>5, NothingChosen DEF AgeInv

LEMMA AgesTick ==
    ASSUME LockInv, AgeInv, UNCHANGED setting, Tick
    PROVE  AgeInv'
<1>1. UNCHANGED <<mTransactions, parent, mIsBusy, complete, doomed, pc, tx>>
  BY DEF Tick, treeVars, callVars
<1>2. /\ \A t : Top(t)' = Top(t)
      /\ Held' = Held
      /\ \A t \in mTransactions : Top(t) \in mTransactions
  BY <1>1, Tops DEF Top, Held, LockInv
<1>3. ASSUME NEW t \in mTransactions
      PROVE  /\ age'[t] = IF age[t] < OLDEST THEN age[t] + 1 ELSE age[t]
             /\ unused'[t] = IF unused[t] < OLDEST THEN unused[t] + 1 ELSE unused[t]
             /\ age[t] \in 0..OLDEST /\ unused[t] \in 0..OLDEST
  BY DEF Tick, LockInv, Types, TypeOK
<1>4. ASSUME NEW t \in mTransactions, NEW u \in mTransactions
      PROVE  /\ age[u] <= unused[t] => age'[u] <= unused'[t]
             /\ age[u] = age[t] => age'[u] = age'[t]
             /\ unused[t] = OLDEST => unused'[t] = OLDEST
  <2>1. PICK a, b, c \in 0..OLDEST : a = age[u] /\ b = age[t] /\ c = unused[t]
    BY <1>3
  <2>2. PICK a1, b1, c1 : a1 = age'[u] /\ b1 = age'[t] /\ c1 = unused'[t]
    OBVIOUS
  <2>3. /\ a1 = IF a < OLDEST THEN a + 1 ELSE a
        /\ b1 = IF b < OLDEST THEN b + 1 ELSE b
        /\ c1 = IF c < OLDEST THEN c + 1 ELSE c
    BY <1>3, <2>1, <2>2
  <2>4. /\ a <= c => a1 <= c1
        /\ a = b => a1 = b1
        /\ c = OLDEST => c1 = OLDEST
    BY <2>3, Oldest
  <2> QED BY <2>1, <2>2, <2>4
<1>5. ASSUME NEW t \in mTransactions, ~complete[t]
      PROVE  Fresh(t)' /\ Covers(t)' /\ Level(t)'
  <2>1. Fresh(t) /\ Covers(t) /\ Level(t) /\ Top(t) \in mTransactions
    BY <1>2, <1>5 DEF AgeInv, Stamps
  <2>2. Fresh(t)'
    BY <1>1, <1>2, <1>4, <2>1 DEF Fresh
  <2>3. Covers(t)'
    BY <1>1, <1>2, <1>4, <2>1 DEF Covers
  <2>4. Level(t)'
    BY <1>1, <1>2, <1>4, <2>1 DEF Level
  <2> QED BY <2>2, <2>3, <2>4
<1>6. Stamps'
  BY <1>1, <1>5 DEF Stamps
<1>7. Chosen'
  <2>1. ASSUME NEW t \in doomed, ~complete[t], ~complete[Top(t)]
        PROVE  unused'[t] > Lifetime(t)'
    <3>1. t \in mTransactions /\ unused[t] > Lifetime(t)
      BY <2>1 DEF AgeInv, Chosen, LockInv, Types, TypeOK
    <3>2. Lifetime(t)' = Lifetime(t) /\ Lifetime(t) \in Nat
      BY LifetimesOrdered DEF Lifetime
    <3>3. unused'[t] >= unused[t] /\ unused[t] \in Nat /\ unused'[t] \in Nat
      BY <1>3, <3>1, Oldest
    <3> QED BY <3>1, <3>2, <3>3
  <2> QED BY <1>1, <1>2, <1>4, <2>1 DEF AgeInv, Chosen
<1> QED BY <1>6, <1>7 DEF AgeInv

\* The steps that leave the trees and the stamps alone.
LEMMA AgesOther ==
    ASSUME LockInv, AgeInv, UNCHANGED setting,
           \/ \E p \in Threads : \/ findTransactionFor(p) \/ waitUntilAvailable(p)
                                 \/ waitSignaled(p) \/ waitTimedOut(p) \/ waitDone(p)
           \/ \E p \in Procs : signalTest(p) \/ signalSet(p) \/ signalPost(p)
           \/ signalAllAvailable
    PROVE  AgeInv'
<1> USE NoneIsNull DEF At, Goto, treeVars, ageVars, callVars, Procs
<1>1. UNCHANGED <<mTransactions, parent, complete, age, unused, doomed>>
  BY DEF findTransactionFor, waitUntilAvailable, waitSignaled, waitTimedOut, waitDone,
         signalTest, signalSet, signalPost, signalAllAvailable, UNCHANGED_BY_SIGNAL
<1>2. \A t \in mTransactions : mIsBusy[t] => mIsBusy'[t]
  BY DEF findTransactionFor, waitUntilAvailable, waitSignaled, waitTimedOut, waitDone,
         signalTest, signalSet, signalPost, signalAllAvailable, UNCHANGED_BY_SIGNAL,
         markBusy, LockInv, Types, TypeOK
<1>3. Held \subseteq Held' /\ \A p \in Held : tx'[p] = tx[p]
  <2> SUFFICES ASSUME NEW q \in Threads, pc[q] = "hold"
               PROVE  pc'[q] = "hold" /\ tx'[q] = tx[q]
    BY DEF Held
  <2>0. \A p \in Threads : p # q => /\ [tx EXCEPT ![p] = NULL][q] = tx[q]
                                    /\ \A x : [pc EXCEPT ![p] = x][q] = pc[q]
    BY DEF LockInv, Types, TypeOK
  <2>1. ASSUME NEW p \in Threads, findTransactionFor(p) \/ waitUntilAvailable(p)
        PROVE  pc'[q] = "hold" /\ tx'[q] = tx[q]
    <3>1. tx \in [Threads -> Transactions \cup {NULL}] /\ DOMAIN pc = Procs
      BY DEF LockInv, Types, TypeOK
    <3>2. p # q
      BY <2>1 DEF findTransactionFor, waitUntilAvailable
    <3>3. CASE findTransactionFor(p)
      BY <3>1, <3>2, <3>3 DEF findTransactionFor
    <3>4. CASE waitUntilAvailable(p)
      BY <3>1, <3>2, <3>4 DEF waitUntilAvailable
    <3> QED BY <2>1, <3>3, <3>4
  <2>2. ASSUME NEW p \in Threads, waitSignaled(p) \/ waitTimedOut(p) \/ waitDone(p)
        PROVE  pc'[q] = "hold" /\ tx'[q] = tx[q]
    <3>1. p # q
      BY <2>2 DEF waitSignaled, waitTimedOut, waitDone
    <3>2. CASE waitSignaled(p)
      BY <2>0, <3>1, <3>2 DEF waitSignaled
    <3>3. CASE waitTimedOut(p)
      BY <2>0, <3>1, <3>3 DEF waitTimedOut
    <3>4. CASE waitDone(p)
      <4>1. /\ tx' = tx \/ tx' = [tx EXCEPT ![p] = NULL]
            /\ pc' = pc \/ \E x : pc' = [pc EXCEPT ![p] = x]
        BY <3>4 DEF waitDone
      <4>2. tx'[q] = tx[q]
        BY <2>0, <3>1, <4>1
      <4>3. pc'[q] = pc[q]
        <5>1. CASE pc' = pc
          BY <5>1
        <5>2. ASSUME NEW x, pc' = [pc EXCEPT ![p] = x]
              PROVE  pc'[q] = pc[q]
          BY <2>0, <3>1, <5>2
        <5> QED BY <4>1, <5>1, <5>2
      <4> QED BY <4>2, <4>3
    <3> QED BY <2>2, <3>2, <3>3, <3>4
  <2>3. ASSUME NEW p \in Procs, signalTest(p) \/ signalSet(p) \/ signalPost(p)
        PROVE  pc'[q] = "hold" /\ tx'[q] = tx[q]
    BY <2>3 DEF signalTest, signalSet, signalPost, UNCHANGED_BY_SIGNAL, Return, LockInv,
                Types, TypeOK
  <2>4. ASSUME signalAllAvailable
        PROVE  pc'[q] = "hold" /\ tx'[q] = tx[q]
    BY <2>4 DEF signalAllAvailable, LockInv, Types, TypeOK
  <2> QED BY <2>1, <2>2, <2>3, <2>4
<1> QED BY <1>1, <1>2, <1>3, AgesStay

LEMMA AgesNext == LockInv /\ AgeInv /\ [Next]_vars => AgeInv'
<1> SUFFICES ASSUME LockInv, AgeInv, [Next]_vars
             PROVE  AgeInv'
  OBVIOUS
<1>1. CASE Next
  <2>1. \A p \in setting.threads : p \in Threads /\ p \in Procs
    BY SettingType DEF LockInv, Types, TypeOK, Procs
  <2>2. GC \in Procs
    BY DEF Procs
  <2>3. UNCHANGED setting
    BY <1>1 DEF Next, Progress, Collect
  <2>4. ASSUME NEW p \in Threads,
               \/ newTransaction(p) \/ linkChild(p) \/ completeTransaction(p)
               \/ markAvailable(p)
        PROVE  AgeInv'
    BY <2>3, <2>4, AgesNew, AgesLink, AgesComplete, AgesRelease
  <2>5. ASSUME removeOldTransactions \/ deleteTransactions \/ Tick
        PROVE  AgeInv'
    BY <2>3, <2>5, AgesChoose, AgesDelete, AgesTick
  <2>6. ASSUME \/ \E p \in Threads : \/ findTransactionFor(p) \/ waitUntilAvailable(p)
                                     \/ waitSignaled(p) \/ waitTimedOut(p) \/ waitDone(p)
               \/ \E p \in Procs : signalTest(p) \/ signalSet(p) \/ signalPost(p)
               \/ signalAllAvailable
        PROVE  AgeInv'
    BY <2>3, <2>6, AgesOther
  <2> QED BY <1>1, <2>1, <2>2, <2>4, <2>5, <2>6 DEF Next, Progress, Collect
<1>2. CASE UNCHANGED vars
  <2>1. UNCHANGED <<setting, mTransactions, parent, complete, age, unused, doomed, mIsBusy,
                    pc, tx>>
    BY <1>2 DEF vars, treeVars, ageVars, callVars
  <2>2. Held' = Held
    BY <2>1 DEF Held
  <2> QED BY <2>1, <2>2, AgesStay
<1> QED BY <1>1, <1>2

\* A step takes out of the list only what the collector has chosen.
LEMMA OnlyTheChosen ==
    ASSUME LockInv, AgeInv, [Next]_vars
    PROVE  \A t \in mTransactions \ mTransactions' :
              ~complete[t] /\ ~complete[Top(t)] => unused[t] > Lifetime(t)
<1>1. mTransactions \subseteq mTransactions' \/ deleteTransactions
  BY DEF Next, Progress, Collect, newTransaction, linkChild, completeTransaction,
         findTransactionFor, waitUntilAvailable, waitSignaled, waitTimedOut, waitDone,
         markAvailable, signalTest, signalSet, signalPost, UNCHANGED_BY_SIGNAL,
         removeOldTransactions, signalAllAvailable, Tick, vars, treeVars
<1>2. ASSUME deleteTransactions
      PROVE  \A t \in mTransactions \ mTransactions' : t \in doomed
  BY <1>2 DEF deleteTransactions
<1> QED BY <1>1, <1>2 DEF AgeInv, Chosen

\* What touch is for, in trees of any depth and with any lifetimes: a transaction
\* in progress, at or below one in progress, is collected only when its tree has
\* not been used for its lifetime.
THEOREM CollectedOnlyWhenStale == Spec => CollectedWhenStale
<1>1. LockInv /\ AgeInv /\ [Next]_vars =>
        [\A t \in mTransactions \ mTransactions' :
            ~complete[t] /\ ~complete[Top(t)] => unused[t] > Lifetime(t)]_vars
  BY OnlyTheChosen
<1> QED BY <1>1, AgeInit, AgesNext, LockCorrect, PTL DEF Spec, CollectedWhenStale

\* The members of the list, its transactions and its events keep their types.
THEOREM TypesKept == Spec => []TypeOK
<1>1. LockInv => TypeOK
  BY DEF LockInv, Types, TypeOK
<1> QED BY <1>1, LockCorrect, PTL
=============================================================================
