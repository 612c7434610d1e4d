------------------------ MODULE DeviceRegistry_proofs ------------------------
(***************************************************************************)
(* Proofs about DeviceRegistry, for any files, keys, customers, users,      *)
(* rules and forms, and any number of events: what users see is theirs by   *)
(* right, however syncs, rules, merges and edits interleave.                *)
(***************************************************************************)
EXTENDS DeviceRegistry, TLAPS, WellFoundedInduction

SyncState ==
  [at : {"idle", "next", "write", "read", "assign", "deactivate", "list"},
   pass : {"none", "upsert", "apply"}, todo : SUBSET Files, found : SUBSET Files,
   file : Files \cup {0}, row : {"none", "new", "hide", "show"}, value : Customers \cup {None}]
MergeState ==
  [at : {"idle", "add", "hide", "show", "clear"}, plan : SUBSET (Files \X Files), todo : SUBSET (Files \X Files),
   file : Files \cup {0}]

\* What of the types the argument needs.
RightTypes ==
  /\ active \subseteq Files
  /\ customer \in [Files -> Customers \cup {None}]
  /\ rules \in Seq(RuleSet)
  /\ given \subseteq Keys \X Customers
  /\ members \in SUBSET (Files \X Files)
  /\ sync \in [Syncers -> SyncState]
  /\ merge \in MergeState

\* A row's customer has been given the row's key ...
CustomersGiven == \A f \in Files : customer[f] # None => <<KeyOf[f], customer[f]>> \in given

\* ... a customer about to be written too, however long ago it was read ...
HasFile(s) == s.at \in {"write", "read", "assign"} => s.file \in Files
AssignsGiven(s) == s.at = "assign" => <<KeyOf[s.file], s.value>> \in given
SyncsGiven == \A a \in Syncers : HasFile(sync[a]) /\ AssignsGiven(sync[a])

\* ... and what a rule would assign.
RulesGiven == \A i \in DOMAIN rules : rules[i].keys \X {rules[i].customer} \subseteq given

\* The merge tool puts files of one key together only.
OfOneKey(pairs) ==
  \A pair \in pairs : pair[1] \in Files /\ pair[2] \in Files /\ KeyOf[pair[1]] = KeyOf[pair[2]]
MergesOfOneKey == OfOneKey(members) /\ OfOneKey(merge.plan) /\ OfOneKey(merge.todo)

RightInv ==
  RightTypes /\ CustomersGiven /\ SyncsGiven /\ RulesGiven /\ MergesOfOneKey
-----------------------------------------------------------------------------
(* What the operators return. *)

\* A set of naturals has a least element, and Min is it.
LEMMA LeastOfNaturals ==
  ASSUME NEW S \in SUBSET Nat, S # {}
  PROVE  \E x \in S : \A y \in S : x <= y
<1>1. IsWellFoundedOn(OpToRel(<, Nat), Nat)
  BY NatLessThanWellFounded
<1>2. PICK x \in S : \A y \in S : ~(<<y, x>> \in OpToRel(<, Nat))
  BY <1>1, WFMin
<1>3. ASSUME NEW y \in S PROVE x <= y
  <2>1. ~(y < x)
    BY <1>2 DEF OpToRel
  <2>2. QED
    BY <2>1
<1>4. QED
  BY <1>3

LEMMA MinOfNaturals ==
  ASSUME NEW S \in SUBSET Nat, S # {}
  PROVE  Min(S) \in S
<1>1. \E x \in S : \A y \in S : x <= y
  BY LeastOfNaturals
<1>2. QED
  BY <1>1 DEF Min

\* RemoveFirst() leaves a sequence, and no element that was not there.
LEMMA RemoveFirstElements ==
  ASSUME NEW S, NEW seq \in Seq(S), NEW e
  PROVE  /\ RemoveFirst(seq, e) \in Seq(S)
         /\ \A i \in DOMAIN RemoveFirst(seq, e) :
              \E j \in DOMAIN seq : RemoveFirst(seq, e)[i] = seq[j]
<1> DEFINE I == {i \in 1 .. Len(seq) : seq[i] = e}
           n == SelectInSeq(seq, LAMBDA v : v = e)
<1>1. CASE ~ \E i \in 1 .. Len(seq) : seq[i] = e
  BY <1>1 DEF RemoveFirst
<1>2. CASE \E i \in 1 .. Len(seq) : seq[i] = e
  <2>1. n = Min(I)
    BY <1>2 DEF SelectInSeq
  <2>2. Min(I) \in I
    <3>1. I \in SUBSET Nat /\ I # {}
      BY <1>2
    <3>2. QED
      BY <3>1, MinOfNaturals
  <2>3. n \in 1 .. Len(seq)
    BY <2>1, <2>2
  <2>4. RemoveFirst(seq, e) = SubSeq(seq, 1, n - 1) \o SubSeq(seq, n + 1, Len(seq))
    BY <1>2 DEF RemoveFirst, RemoveAt
  <2> HIDE DEF n
  <2> DEFINE before == SubSeq(seq, 1, n - 1)
             behind == SubSeq(seq, n + 1, Len(seq))
  <2>5. /\ before \in Seq(S) /\ Len(before) = n - 1
        /\ \A i \in 1 .. n - 1 : before[i] = seq[i]
    BY <2>3
  <2>6. /\ behind \in Seq(S) /\ Len(behind) = Len(seq) - n
        /\ \A i \in 1 .. Len(seq) - n : behind[i] = seq[n + i]
    BY <2>3
  <2> HIDE DEF before, behind
  <2>7. before \o behind \in Seq(S) /\ Len(before \o behind) = Len(before) + Len(behind)
    BY <2>5, <2>6
  <2>8. ASSUME NEW i \in 1 .. Len(before \o behind)
        PROVE  \E j \in 1 .. Len(seq) : (before \o behind)[i] = seq[j]
    <3>1. CASE i <= n - 1
      BY <3>1, <2>3, <2>5, <2>6, <2>7
    <3>2. CASE i > n - 1
      <4>1. (before \o behind)[i] = behind[i - (n - 1)] /\ i - (n - 1) \in 1 .. Len(seq) - n
        BY <3>2, <2>3, <2>5, <2>6, <2>7
      <4>2. n + (i - (n - 1)) \in 1 .. Len(seq)
        BY <4>1, <2>3
      <4>3. QED
        BY <4>1, <4>2, <2>6
    <3>3. QED
      BY <3>1, <3>2, <2>3, <2>7
  <2>9. RemoveFirst(seq, e) = before \o behind
    BY <2>4 DEF before, behind
  <2>10. QED
    <3>1. DOMAIN RemoveFirst(seq, e) = 1 .. Len(before \o behind) /\ DOMAIN seq = 1 .. Len(seq)
      BY <2>7, <2>9
    <3>2. QED
      BY <3>1, <2>7, <2>8, <2>9
<1>3. QED
  BY <1>1, <1>2

\* What is taken over from another row or from a rule has been given to the key.
LEMMA DecisionGiven ==
  ASSUME RightInv, NEW f \in Files, Decision(f) # None
  PROVE  <<KeyOf[f], Decision(f)>> \in given
<1>1. CASE Decision(f) = Inherited(f) /\ Inherited(f) # None
  <2> DEFINE row == Newest(recent, SameKey(f))
             g == CHOOSE g \in row : TRUE
  <2>1. row # {} /\ Inherited(f) = customer[g]
    BY <1>1 DEF Inherited
  <2>2. g \in SameKey(f)
    BY <2>1 DEF Newest
  <2>3. g \in Files /\ KeyOf[g] = KeyOf[f]
    BY <2>2 DEF SameKey, RightInv, RightTypes
  <2>4. QED
    BY <1>1, <2>1, <2>3 DEF RightInv, CustomersGiven
<1>2. CASE Decision(f) = ByRule(f)
  <2> DEFINE rule == Newest(rules, Matching(f))
             r == CHOOSE r \in rule : TRUE
  <2>1. rule # {} /\ ByRule(f) = r.customer
    BY <1>2 DEF ByRule
  <2>2. r \in Matching(f)
    BY <2>1 DEF Newest
  <2>3. PICK i \in DOMAIN rules : r = rules[i] /\ KeyOf[f] \in r.keys
    BY <2>2 DEF Matching, ToSet
  <2>4. QED
    BY <1>2, <2>1, <2>3 DEF RightInv, RulesGiven
<1>3. QED
  BY <1>1, <1>2 DEF Decision

\* A syncer that has decided on a row goes on, or writes what has been given.
LEMMA DecidedState ==
  ASSUME RightInv, NEW s \in SyncState, NEW f \in Files
  PROVE  Decided(s, f) \in SyncState /\ HasFile(Decided(s, f)) /\ AssignsGiven(Decided(s, f))
<1>1. CASE Decision(f) = None
  <2>1. Decided(s, f) \in SyncState
    BY <1>1, Zenon DEF Decided, NextFile, SyncState
  <2>2. Decided(s, f).at = "next"
    BY <1>1, Zenon DEF Decided, NextFile, SyncState
  <2>3. QED
    BY <2>1, <2>2 DEF HasFile, AssignsGiven
<1>2. CASE Decision(f) # None
  <2>1. <<KeyOf[f], Decision(f)>> \in given
    BY <1>2, DecisionGiven
  <2>2. Decision(f) \in Customers \cup {None}
    BY <2>1 DEF RightInv, RightTypes
  <2>3. Decided(s, f) \in SyncState
    BY <1>2, <2>2, Zenon DEF Decided, SyncState
  <2>4. Decided(s, f).file = f /\ Decided(s, f).value = Decision(f)
    BY <1>2, Zenon DEF Decided, SyncState
  <2>5. QED
    BY <2>1, <2>3, <2>4 DEF HasFile, AssignsGiven
<1>3. QED
  BY <1>1, <1>2
-----------------------------------------------------------------------------
(* Syncs. *)

\* One syncer's state changes, and what has been given does not.
LEMMA SyncChanges ==
  ASSUME RightInv, NEW a \in Syncers, NEW s \in SyncState, HasFile(s), AssignsGiven(s),
         sync' = [sync EXCEPT ![a] = s], given' = given
  PROVE  sync' \in [Syncers -> SyncState] /\ SyncsGiven'
<1>1. sync \in [Syncers -> SyncState] /\ \A b \in Syncers : HasFile(sync[b]) /\ AssignsGiven(sync[b])
  BY DEF RightInv, RightTypes, SyncsGiven
<1>2. sync' \in [Syncers -> SyncState]
  BY <1>1
<1>3. ASSUME NEW b \in Syncers PROVE HasFile(sync[b])' /\ AssignsGiven(sync[b])'
  <2>1. sync'[b] = s \/ sync'[b] = sync[b]
    BY <1>1
  <2>2. HasFile(sync'[b])
    BY <1>1, <2>1
  <2>3. sync'[b].at = "assign" => <<KeyOf[sync'[b].file], sync'[b].value>> \in given
    BY <1>1, <2>1 DEF AssignsGiven
  <2>4. QED
    BY <2>2, <2>3 DEF HasFile, AssignsGiven
<1>4. QED
  BY <1>2, <1>3 DEF SyncsGiven

\* A syncer at rest, or about to take up a file, has nothing to write.
LEMMA RestingSyncs ==
  /\ Idle \in SyncState
  /\ \A s \in SyncState : s.at \notin {"write", "read", "assign"} => HasFile(s) /\ AssignsGiven(s)
<1>1. Idle \in SyncState
  BY Zenon DEF Idle, SyncState
<1>2. QED
  BY <1>1 DEF HasFile, AssignsGiven

\* A step that changes one syncer's state only.
LEMMA SyncOnly ==
  ASSUME RightInv, NEW a \in Syncers, NEW s \in SyncState, HasFile(s), AssignsGiven(s),
         sync' = [sync EXCEPT ![a] = s],
         UNCHANGED <<active, customer, rules, given, merge, members>>
  PROVE  RightInv'
<1>1. sync' \in [Syncers -> SyncState] /\ SyncsGiven'
  BY SyncChanges
<1>2. QED
  BY <1>1 DEF RightInv, RightTypes, CustomersGiven, RulesGiven, MergesOfOneKey, OfOneKey

\* Each step of a sync keeps the invariant.
LEMMA SyncKeeps ==
  ASSUME RightInv, NEW a \in Syncers, SyncNext(a)
  PROVE  RightInv'
<1> DEFINE s == sync[a]
<1>1. s \in SyncState /\ HasFile(s) /\ AssignsGiven(s)
  BY DEF RightInv, RightTypes, SyncsGiven
<1>2. UNCHANGED <<rules, given, merge>>
  BY DEF SyncNext, access
<1>3. /\ active \subseteq Files /\ customer \in [Files -> Customers \cup {None}]
      /\ CustomersGiven
  BY DEF RightInv, RightTypes
<1> HIDE DEF s
<1>4. CASE Discover(a)
  <2>1. PICK unreadable : sync' = [sync EXCEPT ![a] = [Idle EXCEPT
            !.at = "next", !.pass = "upsert",
            !.todo = OnDisk \ unreadable,
            !.found = IF a = "tool" THEN OnDisk \ unreadable ELSE {}]]
    BY <1>4 DEF Discover
  <2> DEFINE t == [Idle EXCEPT !.at = "next", !.pass = "upsert", !.todo = OnDisk \ unreadable,
                     !.found = IF a = "tool" THEN OnDisk \ unreadable ELSE {}]
  <2>2. OnDisk \ unreadable \in SUBSET Files
    BY DEF OnDisk
  <2>3. (IF a = "tool" THEN OnDisk \ unreadable ELSE {}) \in SUBSET Files
    BY <2>2
  <2>4. t \in SyncState
    BY <2>2, <2>3, RestingSyncs, Zenon DEF SyncState
  <2>5. t.at = "next"
    BY RestingSyncs, Zenon DEF SyncState
  <2>6. HasFile(t) /\ AssignsGiven(t)
    BY <2>4, <2>5, RestingSyncs
  <2>7. UNCHANGED <<active, customer, members>>
    BY <1>4 DEF Discover, rows
  <2>8. sync' = [sync EXCEPT ![a] = t]
    BY <2>1
  <2> HIDE DEF t
  <2>9. QED
    BY <1>2, <2>4, <2>6, <2>7, <2>8, SyncOnly
<1>5. CASE LookUp(a)
  <2>1. PICK f \in s.todo : sync' = [sync EXCEPT ![a] = LookedUp(s, f)]
    BY <1>5 DEF LookUp, s
  <2>2. f \in Files
    BY <1>1 DEF SyncState
  <2>3. Wanted(f) \in {"none", "new", "hide", "show"}
    BY DEF Wanted
  <2>4. LookedUp(s, f) \in SyncState
    BY <1>1, <2>2, <2>3, Zenon DEF LookedUp, SyncState
  <2>5. LookedUp(s, f).at = "write" /\ LookedUp(s, f).file = f
    BY <1>1, Zenon DEF LookedUp, SyncState
  <2>6. HasFile(LookedUp(s, f)) /\ AssignsGiven(LookedUp(s, f))
    BY <2>2, <2>5 DEF HasFile, AssignsGiven
  <2>7. UNCHANGED <<active, customer, members>>
    BY <1>5 DEF LookUp, rows
  <2>8. QED
    BY <1>2, <2>1, <2>4, <2>6, <2>7, SyncOnly
<1>6. CASE WriteRow(a)
  <2> DEFINE t == [s EXCEPT !.at = "read", !.row = "none"]
  <2>1. s.at = "write" /\ s.file \in Files
    BY <1>1, <1>6 DEF WriteRow, HasFile, s
  <2>2. t \in SyncState
    BY <1>1, Zenon DEF SyncState
  <2>3. t.at = "read" /\ t.file = s.file
    BY <1>1, Zenon DEF SyncState
  <2>4. HasFile(t) /\ AssignsGiven(t)
    BY <2>1, <2>3 DEF HasFile, AssignsGiven
  <2>5. sync' = [sync EXCEPT ![a] = t]
    BY <1>6 DEF WriteRow, s
  <2> HIDE DEF t
  <2>6. sync' \in [Syncers -> SyncState] /\ SyncsGiven'
    BY <1>2, <2>2, <2>4, <2>5, SyncChanges
  <2>7. active' \subseteq Files /\ UNCHANGED <<customer, members>>
    BY <1>3, <1>6, <2>1 DEF WriteRow, s
  <2>8. QED
    BY <1>2, <2>6, <2>7
    DEF RightInv, RightTypes, CustomersGiven, RulesGiven, MergesOfOneKey, OfOneKey
<1>7. CASE RowConflict(a)
  <2>1. sync' = [sync EXCEPT ![a] = Idle] /\ UNCHANGED <<active, customer, members>>
    BY <1>7 DEF RowConflict, rows
  <2>2. Idle \in SyncState /\ HasFile(Idle) /\ AssignsGiven(Idle)
    BY RestingSyncs DEF Idle
  <2>3. QED
    BY <1>2, <2>1, <2>2, SyncOnly
<1>8. CASE Decide(a)
  <2>1. s.at = "read" /\ s.file \in Files
    BY <1>1, <1>8 DEF Decide, HasFile, s
  <2>2. sync' = [sync EXCEPT ![a] = Decided(s, s.file)] /\ UNCHANGED <<active, customer, members>>
    BY <1>8 DEF Decide, rows, s
  <2>3. /\ Decided(s, s.file) \in SyncState
        /\ HasFile(Decided(s, s.file)) /\ AssignsGiven(Decided(s, s.file))
    BY <1>1, <2>1, DecidedState
  <2>4. QED
    BY <1>2, <2>2, <2>3, SyncOnly
<1>9. CASE Assign(a)
  <2>1. s.at = "assign" /\ s.file \in Files /\ <<KeyOf[s.file], s.value>> \in given
    BY <1>1, <1>9 DEF Assign, HasFile, AssignsGiven, s
  <2>2. NextFile(s) \in SyncState
    BY <1>1, Zenon DEF NextFile, SyncState
  <2>3. NextFile(s).at = "next"
    BY <1>1, Zenon DEF NextFile, SyncState
  <2>4. HasFile(NextFile(s)) /\ AssignsGiven(NextFile(s))
    BY <2>2, <2>3, RestingSyncs
  <2>5. /\ sync' = [sync EXCEPT ![a] = NextFile(s)]
        /\ customer' = [customer EXCEPT ![s.file] = s.value]
        /\ UNCHANGED <<active, members>>
    BY <1>9 DEF Assign, s
  <2>6. sync' \in [Syncers -> SyncState] /\ SyncsGiven'
    BY <1>2, <2>2, <2>4, <2>5, SyncChanges
  <2>7. s.value \in Customers \cup {None}
    BY <1>1 DEF SyncState
  <2>8. customer' \in [Files -> Customers \cup {None}] /\ CustomersGiven'
    BY <1>2, <1>3, <2>1, <2>5, <2>7 DEF CustomersGiven
  <2>9. QED
    BY <1>2, <2>5, <2>6, <2>8 DEF RightInv, RightTypes, RulesGiven, MergesOfOneKey, OfOneKey
<1>10. CASE EndPass(a)
  <2> DEFINE t == IF a = "tool" /\ s.pass = "upsert" THEN [s EXCEPT !.at = "deactivate"] ELSE Idle
  <2>1. sync' = [sync EXCEPT ![a] = t] /\ UNCHANGED <<active, customer, members>>
    BY <1>10 DEF EndPass, rows, s
  <2>2. [s EXCEPT !.at = "deactivate"] \in SyncState
    BY <1>1 DEF SyncState
  <2>3. [s EXCEPT !.at = "deactivate"].at = "deactivate"
    BY <1>1 DEF SyncState
  <2>4. t \in SyncState /\ t.at \in {"deactivate", "idle"}
    BY <2>2, <2>3, RestingSyncs DEF Idle
  <2>5. HasFile(t) /\ AssignsGiven(t)
    BY <2>4, RestingSyncs
  <2> HIDE DEF t
  <2>6. QED
    BY <1>2, <2>1, <2>4, <2>5, SyncOnly
<1>11. CASE a = "tool" /\ DeactivateMissing
  <2> DEFINE t == [Idle EXCEPT !.at = "list"]
  <2>1. /\ sync' = [sync EXCEPT ![a] = t]
        /\ active' \subseteq active /\ UNCHANGED <<customer, members>>
    BY <1>11 DEF DeactivateMissing
  <2>2. t \in SyncState
    BY RestingSyncs DEF SyncState
  <2>3. t.at = "list"
    BY RestingSyncs DEF SyncState
  <2>4. HasFile(t) /\ AssignsGiven(t)
    BY <2>2, <2>3, RestingSyncs
  <2> HIDE DEF t
  <2>5. sync' \in [Syncers -> SyncState] /\ SyncsGiven'
    BY <1>2, <2>1, <2>2, <2>4, SyncChanges
  <2>6. QED
    BY <1>2, <1>3, <2>1, <2>5
    DEF RightInv, RightTypes, CustomersGiven, RulesGiven, MergesOfOneKey, OfOneKey
<1>12. CASE ListActive(a)
  <2> DEFINE t == [s EXCEPT !.at = "next", !.pass = "apply", !.todo = active]
  <2>1. sync' = [sync EXCEPT ![a] = t] /\ UNCHANGED <<active, customer, members>>
    BY <1>12 DEF ListActive, rows, s
  <2>2. t \in SyncState
    <3>1. active \in SUBSET Files
      BY <1>3
    <3>2. QED
      BY <1>1, <3>1, Zenon DEF SyncState
  <2>3. t.at = "next"
    BY <1>1, Zenon DEF SyncState
  <2>4. HasFile(t) /\ AssignsGiven(t)
    BY <2>2, <2>3, RestingSyncs
  <2> HIDE DEF t
  <2>5. QED
    BY <1>2, <2>1, <2>2, <2>4, SyncOnly
<1>13. CASE ApplyNext(a)
  <2>1. PICK f \in s.todo : sync' = [sync EXCEPT ![a] = Decided(s, f)]
    BY <1>13 DEF ApplyNext, s
  <2>2. f \in Files
    BY <1>1 DEF SyncState
  <2>3. Decided(s, f) \in SyncState /\ HasFile(Decided(s, f)) /\ AssignsGiven(Decided(s, f))
    BY <1>1, <2>2, DecidedState
  <2>4. UNCHANGED <<active, customer, members>>
    BY <1>13 DEF ApplyNext, rows
  <2>5. QED
    BY <1>2, <2>1, <2>3, <2>4, SyncOnly
<1>14. CASE SyncInterrupted(a)
  <2>1. sync' = [sync EXCEPT ![a] = Idle] /\ UNCHANGED <<active, customer, members>>
    BY <1>14 DEF SyncInterrupted, rows
  <2>2. Idle \in SyncState /\ HasFile(Idle) /\ AssignsGiven(Idle)
    BY RestingSyncs DEF Idle
  <2>3. QED
    BY <1>2, <2>1, <2>2, SyncOnly
<1>15. CASE AssignFails(a)
  <2>1. sync' = [sync EXCEPT ![a] = NextFile(s)] /\ UNCHANGED <<active, customer, members>>
    BY <1>15 DEF AssignFails, rows, s
  <2>2. NextFile(s) \in SyncState
    BY <1>1, Zenon DEF NextFile, SyncState
  <2>3. NextFile(s).at = "next"
    BY <1>1, Zenon DEF NextFile, SyncState
  <2>4. HasFile(NextFile(s)) /\ AssignsGiven(NextFile(s))
    BY <2>2, <2>3, RestingSyncs
  <2>5. QED
    BY <1>2, <2>1, <2>2, <2>4, SyncOnly
<1>16. QED
  BY <1>4, <1>5, <1>6, <1>7, <1>8, <1>9, <1>10, <1>11, <1>12, <1>13, <1>14, <1>15
  DEF SyncNext, SyncStep
-----------------------------------------------------------------------------
(* The merge tool. *)

\* A run plans to merge files of one key only.
LEMMA PlanOfOneKey == OfOneKey(MergePlan) /\ MergePlan \in SUBSET (Files \X Files)
<1>1. MergePlan \in SUBSET (Files \X Files)
  BY DEF MergePlan, OnDisk
<1>2. ASSUME NEW pair \in MergePlan
      PROVE  pair[1] \in Files /\ pair[2] \in Files /\ KeyOf[pair[1]] = KeyOf[pair[2]]
  BY <1>1 DEF MergePlan
<1>3. QED
  BY <1>1, <1>2 DEF OfOneKey

\* The merge tool's state and what it changes besides: what is shown and mapped.
LEMMA MergeOnly ==
  ASSUME RightInv, merge' \in MergeState, OfOneKey(merge'.plan), OfOneKey(merge'.todo),
         members' \in SUBSET (Files \X Files), OfOneKey(members'), active' \subseteq Files,
         UNCHANGED <<customer, rules, given, sync>>
  PROVE  RightInv'
<1>1. CustomersGiven' /\ SyncsGiven' /\ RulesGiven'
  BY DEF RightInv, CustomersGiven, SyncsGiven, HasFile, AssignsGiven, RulesGiven
<1>2. RightTypes'
  BY DEF RightInv, RightTypes
<1>3. MergesOfOneKey'
  BY DEF MergesOfOneKey, OfOneKey
<1>4. QED
  BY <1>1, <1>2, <1>3 DEF RightInv

LEMMA RestingMerge ==
  /\ Resting \in MergeState /\ Resting.plan = {} /\ Resting.todo = {}
  /\ OfOneKey({})
BY DEF Resting, MergeState, OfOneKey

\* Each step of the merge tool keeps the invariant.
LEMMA MergeKeeps ==
  ASSUME RightInv, MergeNext
  PROVE  RightInv'
<1>1. /\ merge \in MergeState /\ OfOneKey(merge.plan) /\ OfOneKey(merge.todo)
      /\ members \in SUBSET (Files \X Files) /\ OfOneKey(members) /\ active \subseteq Files
  BY DEF RightInv, RightTypes, MergesOfOneKey
<1>2. UNCHANGED <<rules, given, sync>>
  BY DEF MergeNext, access
<1>3. ASSUME NEW pair \in merge.todo
      PROVE  pair \in Files \X Files /\ pair[1] \in Files /\ pair[2] \in Files
  BY <1>1 DEF MergeState
<1>4. CASE PlanMerges
  <2> DEFINE t == [Resting EXCEPT !.at = "add", !.plan = MergePlan, !.todo = MergePlan]
  <2>1. t \in MergeState
    BY RestingMerge, PlanOfOneKey, Zenon DEF MergeState
  <2>2. t.plan = MergePlan /\ t.todo = MergePlan
    BY RestingMerge, Zenon DEF MergeState
  <2>3. merge' = t /\ UNCHANGED <<active, customer, members>>
    BY <1>4 DEF PlanMerges, rows
  <2> HIDE DEF t
  <2>4. QED
    BY <1>1, <1>2, <2>1, <2>2, <2>3, PlanOfOneKey, MergeOnly
<1>5. CASE AddMember
  <2>1. PICK pair \in merge.todo :
          /\ members' = members \cup {pair}
          /\ merge' = [merge EXCEPT !.at = "hide", !.todo = @ \ {pair}, !.file = pair[2]]
    BY <1>5, Zenon DEF AddMember
  <2> DEFINE t == [merge EXCEPT !.at = "hide", !.todo = @ \ {pair}, !.file = pair[2]]
  <2>2. t \in MergeState
    BY <1>1, <1>3, Zenon DEF MergeState
  <2>3. t.plan = merge.plan /\ t.todo = merge.todo \ {pair}
    BY <1>1, Zenon DEF MergeState
  <2>4. OfOneKey(t.plan) /\ OfOneKey(t.todo)
    BY <1>1, <2>3 DEF OfOneKey
  <2>5. members' \in SUBSET (Files \X Files) /\ OfOneKey(members')
    BY <1>1, <1>3, <2>1 DEF OfOneKey
  <2>6. merge' = t /\ UNCHANGED <<active, customer>>
    BY <1>5, <2>1 DEF AddMember, rows
  <2> HIDE DEF t
  <2>7. QED
    BY <1>1, <1>2, <2>2, <2>4, <2>5, <2>6, MergeOnly
<1>6. CASE HideMember
  <2> DEFINE t == [merge EXCEPT !.at = "add"]
  <2>1. t \in MergeState
    BY <1>1 DEF MergeState
  <2>2. t.plan = merge.plan /\ t.todo = merge.todo
    BY <1>1 DEF MergeState
  <2>3. /\ merge' = IF merge.todo = {} THEN Resting ELSE t
        /\ active' \subseteq active /\ UNCHANGED <<customer, members>>
    BY <1>6 DEF HideMember
  <2> HIDE DEF t
  <2>4. merge' \in MergeState /\ OfOneKey(merge'.plan) /\ OfOneKey(merge'.todo)
    BY <1>1, <2>1, <2>2, <2>3, RestingMerge
  <2>5. QED
    BY <1>1, <1>2, <2>3, <2>4, MergeOnly
<1>7. CASE StartUndo
  <2> DEFINE t == [Resting EXCEPT !.at = "show", !.plan = members, !.todo = members]
  <2>1. t \in MergeState
    BY <1>1, RestingMerge, Zenon DEF MergeState
  <2>2. t.plan = members /\ t.todo = members
    BY RestingMerge, Zenon DEF MergeState
  <2>3. merge' = t /\ UNCHANGED <<active, customer, members>>
    BY <1>7 DEF StartUndo, rows
  <2> HIDE DEF t
  <2>4. QED
    BY <1>1, <1>2, <2>1, <2>2, <2>3, MergeOnly
<1>8. CASE ShowMember
  <2>1. PICK pair \in merge.todo :
          /\ active' = active \cup {pair[2]}
          /\ merge' = [merge EXCEPT !.todo = @ \ {pair}, !.at = IF merge.todo = {pair} THEN "clear" ELSE @]
    BY <1>8, Zenon DEF ShowMember
  <2> DEFINE at == IF merge.todo = {pair} THEN "clear" ELSE merge.at
             t == [merge EXCEPT !.todo = @ \ {pair}, !.at = at]
  <2>2. at \in {"idle", "add", "hide", "show", "clear"}
    BY <1>1 DEF MergeState
  <2>3. merge' = t /\ UNCHANGED <<customer, members>>
    BY <1>8, <2>1 DEF ShowMember
  <2> HIDE DEF at
  <2>4. t \in MergeState
    BY <1>1, <2>2, Zenon DEF MergeState
  <2>5. t.plan = merge.plan /\ t.todo = merge.todo \ {pair}
    BY <1>1, Zenon DEF MergeState
  <2> HIDE DEF t
  <2>6. OfOneKey(t.plan) /\ OfOneKey(t.todo)
    BY <1>1, <2>5 DEF OfOneKey
  <2>7. active' \subseteq Files
    BY <1>1, <1>3, <2>1
  <2>8. QED
    BY <1>1, <1>2, <2>3, <2>4, <2>6, <2>7, MergeOnly
<1>9. CASE ClearMembers
  <2>1. PICK primary \in {pair[1] : pair \in merge.plan} :
          LET left == {pair \in merge.plan : pair[1] # primary}
          IN /\ members' = {pair \in members : pair[1] # primary}
             /\ merge' = IF left = {} THEN Resting ELSE [merge EXCEPT !.plan = left]
    BY <1>9, Zenon DEF ClearMembers
  <2> DEFINE left == {pair \in merge.plan : pair[1] # primary}
             t == [merge EXCEPT !.plan = left]
  <2>2. /\ members' \subseteq members /\ left \subseteq merge.plan
        /\ merge' = IF left = {} THEN Resting ELSE t
        /\ UNCHANGED <<active, customer>>
    BY <1>9, <2>1 DEF ClearMembers, rows
  <2> HIDE DEF left
  <2>3. t \in MergeState /\ t.plan = left /\ t.todo = merge.todo
    BY <1>1, <2>2 DEF MergeState
  <2> HIDE DEF t
  <2>4. OfOneKey(left) /\ OfOneKey(members') /\ members' \in SUBSET (Files \X Files)
    BY <1>1, <2>2 DEF OfOneKey
  <2>5. merge' \in MergeState /\ OfOneKey(merge'.plan) /\ OfOneKey(merge'.todo)
    BY <1>1, <2>2, <2>3, <2>4, RestingMerge
  <2>6. QED
    BY <1>1, <1>2, <2>2, <2>4, <2>5, MergeOnly
<1>10. CASE MergeInterrupted
  <2>1. merge' = Resting /\ UNCHANGED <<active, customer, members>>
    BY <1>10 DEF MergeInterrupted, rows
  <2>2. QED
    BY <1>1, <1>2, <2>1, RestingMerge, MergeOnly
<1>11. QED
  BY <1>4, <1>5, <1>6, <1>7, <1>8, <1>9, <1>10 DEF MergeNext
-----------------------------------------------------------------------------
(* The administrator's forms. *)

\* A rule is made the newest one; what it may assign is given from now on.
LEMMA SaveRuleKeeps ==
  ASSUME RightInv, NEW r \in RuleSet, SaveRule(r), UNCHANGED <<members, merge>>
  PROVE  RightInv'
<1> DEFINE rest == RemoveFirst(rules, r)
           t == [Idle EXCEPT !.at = "list"]
<1>1. /\ rules \in Seq(RuleSet) /\ given \subseteq Keys \X Customers
      /\ r \in Rule /\ r.keys \subseteq Keys /\ r.customer \in Customers
  BY FormsAssumption DEF RightInv, RightTypes, Rule
<1>2. /\ rules' = Append(rest, r) /\ given' = given \cup (r.keys \X {r.customer})
      /\ sync' = [sync EXCEPT !["rules"] = t] /\ UNCHANGED <<active, customer>>
  BY DEF SaveRule, rows
<1>3. /\ rest \in Seq(RuleSet)
      /\ \A i \in DOMAIN rest : \E j \in DOMAIN rules : rest[i] = rules[j]
  BY <1>1, RemoveFirstElements
<1> HIDE DEF rest
<1>4. given \subseteq given' /\ given' \subseteq Keys \X Customers
  BY <1>1, <1>2
<1>5. rules' \in Seq(RuleSet) /\ RulesGiven'
  <2>1. rules' \in Seq(RuleSet)
    BY <1>2, <1>3
  <2>2. ASSUME NEW i \in DOMAIN rules'
        PROVE  rules'[i].keys \X {rules'[i].customer} \subseteq given'
    <3>1. rules'[i] = r \/ \E j \in DOMAIN rules : rules'[i] = rules[j]
      BY <1>2, <1>3
    <3>2. QED
      BY <1>2, <1>4, <3>1 DEF RightInv, RulesGiven
  <2>3. QED
    BY <2>1, <2>2 DEF RulesGiven
<1>6. sync' \in [Syncers -> SyncState] /\ SyncsGiven'
  <2>1. t \in SyncState
    BY RestingSyncs DEF SyncState
  <2>2. t.at = "list"
    BY RestingSyncs DEF SyncState
  <2> HIDE DEF t
  <2>3. ASSUME NEW b \in Syncers PROVE sync'[b] \in SyncState /\ (sync'[b] = t \/ sync'[b] = sync[b])
    BY <1>2, <2>1 DEF RightInv, RightTypes
  <2>4. sync' \in [Syncers -> SyncState]
    BY <1>2, <2>1 DEF RightInv, RightTypes
  <2>5. ASSUME NEW b \in Syncers PROVE HasFile(sync[b])' /\ AssignsGiven(sync[b])'
    BY <1>4, <2>2, <2>3 DEF RightInv, SyncsGiven, HasFile, AssignsGiven
  <2>6. QED
    BY <2>4, <2>5 DEF SyncsGiven
<1>7. CustomersGiven'
  BY <1>2, <1>4 DEF RightInv, CustomersGiven
<1>8. QED
  BY <1>2, <1>4, <1>5, <1>6, <1>7 DEF RightInv, RightTypes, MergesOfOneKey, OfOneKey

\* A device's form gives its key what it writes.
LEMMA EditDeviceKeeps ==
  ASSUME RightInv, NEW f \in active, NEW c \in Customers \cup {None}, EditDevice(f, c),
         UNCHANGED <<members, merge>>
  PROVE  RightInv'
<1>1. f \in Files /\ KeyOf[f] \in Keys /\ customer \in [Files -> Customers \cup {None}]
  BY DEF RightInv, RightTypes, Keys
<1>2. /\ customer' = [customer EXCEPT ![f] = c]
      /\ given' = IF c = None THEN given ELSE given \cup {<<KeyOf[f], c>>}
      /\ UNCHANGED <<active, rules, sync>>
  BY DEF EditDevice
<1>3. given \subseteq given' /\ given' \subseteq Keys \X Customers
  BY <1>1, <1>2 DEF RightInv, RightTypes
<1>4. customer' \in [Files -> Customers \cup {None}] /\ CustomersGiven'
  BY <1>1, <1>2 DEF RightInv, CustomersGiven
<1>5. SyncsGiven' /\ RulesGiven'
  BY <1>2, <1>3 DEF RightInv, SyncsGiven, RulesGiven, HasFile, AssignsGiven
<1>6. QED
  BY <1>2, <1>3, <1>4, <1>5 DEF RightInv, RightTypes, MergesOfOneKey, OfOneKey

\* What the other forms and the receiver do leaves it all alone, or takes a rule away.
LEMMA OthersKeep ==
  ASSUME RightInv, rules' \in Seq(RuleSet),
         \A i \in DOMAIN rules' : \E j \in DOMAIN rules : rules'[i] = rules[j],
         UNCHANGED <<active, customer, given, sync, members, merge>>
  PROVE  RightInv'
<1>1. RulesGiven'
  BY DEF RightInv, RulesGiven
<1>2. CustomersGiven' /\ SyncsGiven'
  BY DEF RightInv, CustomersGiven, SyncsGiven, HasFile, AssignsGiven
<1>3. RightTypes' /\ MergesOfOneKey'
  BY DEF RightInv, RightTypes, MergesOfOneKey, OfOneKey
<1>4. QED
  BY <1>1, <1>2, <1>3 DEF RightInv

\* Each form keeps the invariant.
LEMMA AdminKeeps ==
  ASSUME RightInv, AdminNext
  PROVE  RightInv'
<1>1. rules \in Seq(RuleSet) /\ \A i \in DOMAIN rules : \E j \in DOMAIN rules : rules[i] = rules[j]
  BY DEF RightInv, RightTypes
<1>2. UNCHANGED <<members, merge>>
  BY DEF AdminNext
<1>3. ASSUME NEW r \in RuleSet, SaveRule(r) PROVE RightInv'
  BY <1>2, <1>3, SaveRuleKeeps
<1>4. ASSUME NEW r \in RuleSet, DeleteRule(r) PROVE RightInv'
  <2>1. rules' = RemoveFirst(rules, r) /\ UNCHANGED <<active, customer, given, sync>>
    BY <1>4 DEF DeleteRule, rows
  <2>2. /\ rules' \in Seq(RuleSet)
        /\ \A i \in DOMAIN rules' : \E j \in DOMAIN rules : rules'[i] = rules[j]
    BY <1>1, <2>1, RemoveFirstElements
  <2>3. QED
    BY <1>2, <2>1, <2>2, OthersKeep
<1>5. ASSUME NEW f \in active, NEW c \in Customers \cup {None}, EditDevice(f, c) PROVE RightInv'
  BY <1>2, <1>5, EditDeviceKeeps
<1>6. ASSUME NEW u, NEW a, SaveUser(u, a) PROVE RightInv'
  BY <1>1, <1>2, <1>6, OthersKeep DEF SaveUser, rows
<1>7. ASSUME NEW u, NEW f, NEW granted, SetGrant(u, f, granted) PROVE RightInv'
  BY <1>1, <1>2, <1>7, OthersKeep DEF SetGrant, rows
<1>8. QED
  BY <1>3, <1>4, <1>5, <1>6, <1>7 DEF AdminNext, AssignUser
-----------------------------------------------------------------------------
\* The invariant holds to begin with, when there is nothing to see, ...
LEMMA RightInit == Init => RightInv
<1> SUFFICES ASSUME Init PROVE RightInv
  OBVIOUS
<1>1. sync \in [Syncers -> SyncState] /\ SyncsGiven
  BY RestingSyncs DEF Init, SyncsGiven, HasFile, AssignsGiven, Idle
<1>2. merge \in MergeState /\ merge.plan = {} /\ merge.todo = {} /\ members = {}
  BY RestingMerge DEF Init
<1>3. customer = [f \in Files |-> None] /\ active = {} /\ rules = << >> /\ given = {}
  BY DEF Init
<1>4. QED
  BY <1>1, <1>2, <1>3
  DEF RightInv, RightTypes, CustomersGiven, RulesGiven, MergesOfOneKey, OfOneKey

\* ... is kept by every step ...
LEMMA RightNext == RightInv /\ [Next]_vars => RightInv'
<1> SUFFICES ASSUME RightInv, [Next]_vars PROVE RightInv'
  OBVIOUS
<1>1. rules \in Seq(RuleSet) /\ \A i \in DOMAIN rules : \E j \in DOMAIN rules : rules[i] = rules[j]
  BY DEF RightInv, RightTypes
<1>2. ASSUME NEW a \in Syncers, SyncNext(a) PROVE RightInv'
  BY <1>2, SyncKeeps
<1>3. CASE MergeNext
  BY <1>3, MergeKeeps
<1>4. CASE AdminNext
  BY <1>4, AdminKeeps
<1>5. CASE FilesNext
  BY <1>1, <1>5, OthersKeep DEF FilesNext, rows, access
<1>6. CASE UNCHANGED vars
  BY <1>1, <1>6, OthersKeep DEF vars, rows, access
<1>7. QED
  BY <1>2, <1>3, <1>4, <1>5, <1>6 DEF Next

\* ... and implies that what users see is theirs by right: what get_device_for_user()
\* lets them see has the customer of their row, and main._device_file_set() adds
\* files of the same key only.
LEMMA RightSeen == RightInv => SeenByRight
<1> SUFFICES ASSUME RightInv, NEW u \in Users, ~ account[u].admin,
                    NEW f \in Visible(u), NEW g \in FileSet(f)
             PROVE  \/ \E h \in Files : <<u, h>> \in grants /\ KeyOf[h] = KeyOf[g]
                    \/ <<KeyOf[g], account[u].customer>> \in given
  BY DEF SeenByRight
<1>1. /\ f \in active
      /\ <<u, f>> \in grants \/ (account[u].customer # None /\ customer[f] = account[u].customer)
  BY DEF Visible
<1>2. f \in Files
  BY <1>1 DEF RightInv, RightTypes
<1>3. KeyOf[g] = KeyOf[f]
  BY DEF FileSet, RightInv, MergesOfOneKey, OfOneKey
<1>4. QED
  BY <1>1, <1>2, <1>3 DEF RightInv, CustomersGiven

\* SeenByRight holds for any files, keys, customers, users, rules and forms,
\* however syncs, merges and edits interleave and wherever they are interrupted.
THEOREM SeenByRightCorrect == Spec => []SeenByRight
<1>1. Spec => []RightInv
  BY RightInit, RightNext, PTL DEF Spec
<1>2. QED
  BY <1>1, RightSeen, PTL
=============================================================================
