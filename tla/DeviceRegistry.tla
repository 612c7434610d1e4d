--------------------------- MODULE DeviceRegistry ---------------------------
(***************************************************************************)
(* The portal's device registry (app/app_db.py): the devices table, which   *)
(* syncs fill from the files the receiver writes, the customers and grants  *)
(* that decide who sees a device, and the merging of the files one          *)
(* instrument has left under several addresses (device_merge_members).      *)
(*                                                                         *)
(* tools/sync_devices.py, POST /admin/sync-devices, POST                    *)
(* /admin/access-rules, tools/merge_duplicate_devices.py and the            *)
(* administrator's forms run side by side.  sqlite3 opens a transaction at  *)
(* the first UPDATE or INSERT only, so what a function has read before may  *)
(* be out of date when it writes: each read and each write is a step.       *)
(***************************************************************************)
EXTENDS Integers, Sequences, FiniteSets, SequencesExt

CONSTANTS
  Files,      \* paths of the receiver's files, numbered in the order of their names
  KeyOf,      \* the device_key of each file
  Arrivals,   \* the times of the records each file receives, in order of arrival
  Present,    \* how many of them each file holds at the start
  Customers,
  Users,
  RuleSet,    \* the range rules an administrator may set up
  Forms,      \* the forms for a user an administrator may send
  MaxEvents,  \* bound: runs of tools, edits, faults and interruptions
  None

Syncers == {"tool", "web", "rules"}
Keys == {KeyOf[f] : f \in Files}
\* A range rule names a customer and covers the serial numbers of some keys.
Rule == [customer : Customers, keys : SUBSET Keys]
\* A row of users: is_active, role and customer_id.
Account == [active : BOOLEAN, admin : BOOLEAN, customer : Customers \cup {None}]

ASSUME FilesAssumption ==
  /\ Files \subseteq Nat /\ IsFiniteSet(Files)
  /\ KeyOf \in [Files -> Keys] /\ Arrivals \in [Files -> Seq(Nat)]
  /\ Present \in [Files -> Nat] /\ \A f \in Files : Present[f] <= Len(Arrivals[f])
ASSUME FormsAssumption ==
  RuleSet \subseteq Rule /\ Forms \subseteq Account /\ None \notin Customers
ASSUME BoundAssumption == MaxEvents \in Nat

VARIABLES
  data,      \* per file: the times of its records; {} is a file that does not exist
  arrived,   \* per file: how many of its Arrivals have come
  ids,       \* the rows of devices, in the order of their ids
  recent,    \* the same rows, in the order of their updated_at
  active,    \* the rows with is_active = 1
  customer,  \* per row: customer_id
  rules,     \* the active range rules, in the order of their updated_at
  members,   \* device_merge_members: pairs of a primary and a member
  account,   \* per user: the row of users
  grants,    \* user_devices: pairs of a user and a device
  sync,      \* per syncer: where it is and what it has read
  merge,     \* the same for tools/merge_duplicate_devices.py
  events,    \* number of bounded events so far
  missed,    \* history: rows a sync has hidden because it did not find their file
  given,     \* history: pairs of a key and a customer an administrator or a rule gave it
  crossed,   \* history: the merge tool was interrupted or ran beside a sync
  quiet,     \* history: nothing but the tool has acted since its sync began
  fresh      \* history: no record has arrived since the merge tool planned

files    == <<data, arrived>>
rows     == <<ids, recent, active, customer>>
access   == <<rules, account, grants>>
vars == <<files, rows, access, members, sync, merge, events, missed, given, crossed, quiet, fresh>>
-----------------------------------------------------------------------------
Known == ToSet(ids)
IdOf(f) == CHOOSE i \in DOMAIN ids : ids[i] = f
OnDisk == {f \in Files : data[f] # {}}
MemberFiles == {pair[2] : pair \in members}
Touch(seq, f) == Append(RemoveFirst(seq, f), f)
\* The elements of seq that are in S.
Only(seq, S) ==
  LET upTo[n \in 0 .. Len(seq)] ==
        IF n = 0 THEN << >> ELSE IF seq[n] \in S THEN Append(upTo[n - 1], seq[n]) ELSE upTo[n - 1]
  IN upTo[Len(seq)]

Idle == [at |-> "idle", pass |-> "none", todo |-> {}, found |-> {}, file |-> 0,
         row |-> "none", value |-> None]
Resting == [at |-> "idle", plan |-> {}, todo |-> {}, file |-> 0]

Init ==
  /\ arrived = Present
  /\ data = [f \in Files |-> {Arrivals[f][i] : i \in 1 .. arrived[f]}]
  /\ ids = << >> /\ recent = << >> /\ active = {}
  /\ customer = [f \in Files |-> None]
  /\ rules = << >> /\ members = {} /\ grants = {}
  /\ account = [u \in Users |-> [active |-> TRUE, admin |-> FALSE, customer |-> None]]
  /\ sync = [a \in Syncers |-> Idle] /\ merge = Resting
  /\ events = 0 /\ missed = {} /\ given = {}
  /\ crossed = FALSE /\ quiet = FALSE /\ fresh = FALSE

Event == events < MaxEvents /\ events' = events + 1
-----------------------------------------------------------------------------
(* Syncs.  discover_devices() lists the files it can open; each is upserted  *)
(* and then given a customer; the tool goes on to hide what it has not found *)
(* and to give all active rows a customer (apply_customer_device_rules_to_   *)
(* existing), which is all that a new rule does.                             *)

\* The tool runs again and again; a file it cannot open, in all four attempts
\* of open_h5_read(), is left out of the list (at most one at a time here).
Discover(a) ==
  /\ sync[a].at = "idle"
  /\ \E unreadable \in {{}} \cup {{f} : f \in OnDisk} :
       /\ IF a = "web" \/ unreadable # {} THEN Event ELSE UNCHANGED events
       /\ sync' = [sync EXCEPT ![a] = [Idle EXCEPT
            !.at = "next", !.pass = "upsert",
            !.todo = OnDisk \ unreadable,
            !.found = IF a = "tool" THEN OnDisk \ unreadable ELSE {}]]
  /\ UNCHANGED <<rows, members, missed>>

\* upsert_device() looks for the row and, if there is one, for a member of its path.
\* Mutation of Wanted: the older upsert_device() (app_db.py, 177), which shows
\* every file it finds.
WantedShown(f) == IF f \notin Known THEN "new" ELSE "show"
Wanted(f) == IF f \notin Known THEN "new" ELSE IF f \in MemberFiles THEN "hide" ELSE "show"
LookedUp(s, f) == [s EXCEPT !.at = "write", !.todo = @ \ {f}, !.file = f, !.row = Wanted(f)]
LookUp(a) ==
  \E f \in sync[a].todo :
     /\ sync[a].at = "next" /\ sync[a].pass = "upsert" /\ \A g \in sync[a].todo : f <= g
     /\ sync' = [sync EXCEPT ![a] = LookedUp(@, f)]
     /\ UNCHANGED <<rows, members, missed, events>>

\* Mutation of WriteRow: the table lacks its UNIQUE constraint.
WriteRowUnguarded(a) ==
  LET f == sync[a].file
  IN /\ sync[a].at = "write"
     /\ ids' = IF sync[a].row = "new" THEN Append(ids, f) ELSE ids
     /\ active' = IF sync[a].row = "hide" THEN active \ {f} ELSE active \cup {f}
     /\ recent' = Touch(recent, f)
     /\ missed' = missed \ {f}
     /\ sync' = [sync EXCEPT ![a] = [@ EXCEPT !.at = "read", !.row = "none"]]
     /\ UNCHANGED <<customer, members, events>>

\* A row of a known file is updated, that of a new one inserted.
WriteRow(a) ==
  LET f == sync[a].file
  IN /\ sync[a].at = "write" /\ (sync[a].row = "new" => f \notin Known)
     /\ ids' = IF sync[a].row = "new" THEN Append(ids, f) ELSE ids
     /\ active' = IF sync[a].row = "hide" THEN active \ {f} ELSE active \cup {f}
     /\ recent' = Touch(recent, f)
     /\ missed' = missed \ {f}
     /\ sync' = [sync EXCEPT ![a] = [@ EXCEPT !.at = "read", !.row = "none"]]
     /\ UNCHANGED <<customer, members, events>>

\* Another sync has inserted the row meanwhile: UNIQUE(db_path, device_key)
\* fails and ends this sync.
RowConflict(a) ==
  /\ sync[a].at = "write" /\ sync[a].row = "new" /\ sync[a].file \in Known
  /\ sync' = [sync EXCEPT ![a] = Idle]
  /\ UNCHANGED <<rows, members, missed, events>>

\* auto_apply_device_customer_rules() reads the device, the row with its key that
\* was updated last, whose customer it takes over if it has none, and the newest
\* rule, if it still has none ...
\* Mutation of SameKey: the key is not compared.
AnyKey(f) == active \ {f}
SameKey(f) == {g \in active \ {f} : KeyOf[g] = KeyOf[f]}
\* ORDER BY updated_at DESC: the one of S that comes last in seq; {} if there is none.
Newest(seq, S) ==
  {seq[i] : i \in {i \in DOMAIN seq : seq[i] \in S /\ \A j \in DOMAIN seq : seq[j] \in S => j <= i}}
Inherited(f) ==
  LET row == Newest(recent, SameKey(f))
  IN IF row = {} THEN None ELSE customer[CHOOSE g \in row : TRUE]
Matching(f) == {r \in ToSet(rules) : KeyOf[f] \in r.keys}
ByRule(f) ==
  LET rule == Newest(rules, Matching(f))
  IN IF rule = {} THEN None ELSE (CHOOSE r \in rule : TRUE).customer
Decision(f) ==
  IF customer[f] # None THEN None ELSE IF Inherited(f) # None THEN Inherited(f) ELSE ByRule(f)

NextFile(s) == [s EXCEPT !.at = "next", !.file = 0, !.value = None]
Decided(s, f) ==
  LET value == Decision(f)
      rest == [s EXCEPT !.todo = @ \ {f}]
  IN IF value = None THEN NextFile(rest)
     ELSE [rest EXCEPT !.at = "assign", !.file = f, !.value = value]
Decide(a) ==
  /\ sync[a].at = "read"
  /\ sync' = [sync EXCEPT ![a] = Decided(@, @.file)]
  /\ UNCHANGED <<rows, members, missed, events>>

\* ... and writes the customer it has found.
Assign(a) ==
  LET f == sync[a].file
  IN /\ sync[a].at = "assign"
     /\ customer' = [customer EXCEPT ![f] = sync[a].value]
     /\ recent' = Touch(recent, f)
     /\ sync' = [sync EXCEPT ![a] = NextFile(@)]
     /\ UNCHANGED <<ids, active, members, missed, events>>

\* The end of a pass: the web request is done with the upserts.
EndPass(a) ==
  /\ sync[a].at = "next" /\ sync[a].todo = {}
  /\ sync' = [sync EXCEPT ![a] =
       IF a = "tool" /\ @.pass = "upsert" THEN [@ EXCEPT !.at = "deactivate"] ELSE Idle]
  /\ UNCHANGED <<rows, members, missed, events>>

\* Mutation of DeactivateMissing: the tool ends here, and leaves the customers to
\* what each upsert has found.
DeactivateMissingLast ==
  LET missing == active \ sync["tool"].found
  IN /\ sync["tool"].at = "deactivate"
     /\ active' = active \ missing
     /\ recent' = Only(recent, Files \ missing) \o Only(ids, missing)
     /\ missed' = missed \cup missing
     /\ sync' = [sync EXCEPT !["tool"] = Idle]
     /\ UNCHANGED <<ids, customer, members, events>>

\* deactivate_missing_receiver_devices(): one transaction, which begins behind its
\* SELECT; a row shown in between is left to the next sync.
DeactivateMissing ==
  LET missing == active \ sync["tool"].found
  IN /\ sync["tool"].at = "deactivate"
     /\ active' = active \ missing
     /\ recent' = Only(recent, Files \ missing) \o Only(ids, missing)
     /\ missed' = missed \cup missing
     /\ sync' = [sync EXCEPT !["tool"] = [Idle EXCEPT !.at = "list"]]
     /\ UNCHANGED <<ids, customer, members, events>>

\* apply_customer_device_rules_to_existing(): the active rows, in order of id.
ListActive(a) ==
  /\ sync[a].at = "list"
  /\ sync' = [sync EXCEPT ![a] = [@ EXCEPT !.at = "next", !.pass = "apply", !.todo = active]]
  /\ UNCHANGED <<rows, members, missed, events>>

ApplyNext(a) ==
  \E f \in sync[a].todo :
     /\ sync[a].at = "next" /\ sync[a].pass = "apply"
     /\ \A g \in sync[a].todo : IdOf(f) <= IdOf(g)
     /\ sync' = [sync EXCEPT ![a] = Decided(@, f)]
     /\ UNCHANGED <<rows, members, missed, events>>

\* "database is locked": the pass over the rows goes on with the next one ...
AssignFails(a) ==
  /\ sync[a].at = "assign" /\ sync[a].pass = "apply" /\ Event
  /\ sync' = [sync EXCEPT ![a] = NextFile(@)]
  /\ UNCHANGED <<rows, members, missed>>

\* ... and all else ends, as it does when the process is killed.
SyncInterrupted(a) ==
  /\ sync[a].at # "idle" /\ Event
  /\ sync' = [sync EXCEPT ![a] = Idle]
  /\ UNCHANGED <<rows, members, missed>>

SyncStep(a) ==
  \/ a \in {"tool", "web"} /\ Discover(a)
  \/ LookUp(a) \/ WriteRow(a) \/ Decide(a) \/ Assign(a) \/ EndPass(a)
  \/ a = "tool" /\ DeactivateMissing
  \/ ListActive(a) \/ ApplyNext(a)

SyncNext(a) ==
  /\ \/ SyncStep(a) /\ quiet' = (a = "tool" /\ (sync[a].at = "idle" \/ quiet))
     \/ (RowConflict(a) \/ AssignFails(a) \/ SyncInterrupted(a)) /\ quiet' = FALSE
  /\ UNCHANGED <<files, access, merge, given, fresh>>
-----------------------------------------------------------------------------
(* tools/merge_duplicate_devices.py                                          *)

\* The times of the first and of the last record.
FileRange(f) == <<Min(data[f]), Max(data[f])>>
Disjoint(f, g) == FileRange(f)[2] < FileRange(g)[1] \/ FileRange(g)[2] < FileRange(f)[1]

\* The active rows of a key whose files have records (--min-records is 1 here),
\* those with more records first: the first is the primary, and each other is a
\* member if its time range overlaps with none of those accepted before it.
Usable(k) == {f \in active \cap OnDisk : KeyOf[f] = k}
Before(f, g) ==
  \/ Cardinality(data[f]) > Cardinality(data[g])
  \/ Cardinality(data[f]) = Cardinality(data[g]) /\ IdOf(f) < IdOf(g)
\* Mutation of Accepted: a candidate is compared with the primary only.
AcceptedByPrimary(k) ==
  {f \in Usable(k) : \A g \in Usable(k) \ {f} :
     (\A h \in Usable(k) \ {g} : Before(g, h)) => Disjoint(f, g)}
Accepted(k) == CHOOSE S \in SUBSET Usable(k) :
  \A f \in Usable(k) : f \in S <=> \A g \in S : Before(g, f) => Disjoint(f, g)
IsPrimary(f) == \A g \in Usable(KeyOf[f]) \ {f} : Before(f, g)
MergePlan ==
  {pair \in (active \cap OnDisk) \X (active \cap OnDisk) :
     LET f == pair[1]
         g == pair[2]
     IN f # g /\ KeyOf[f] = KeyOf[g] /\ IsPrimary(f) /\ g \in Accepted(KeyOf[f])}

PlanMerges ==
  /\ merge.at = "idle" /\ Event /\ MergePlan # {}
  /\ merge' = [Resting EXCEPT !.at = "add", !.plan = MergePlan, !.todo = MergePlan]
  /\ UNCHANGED <<rows, members, missed>>

\* apply_plan(): each member is mapped by add_device_member() ...
AddMember ==
  \E pair \in merge.todo :
    /\ merge.at = "add"
    /\ members' = members \cup {pair}
    /\ merge' = [merge EXCEPT !.at = "hide", !.todo = @ \ {pair}, !.file = pair[2]]
    /\ UNCHANGED <<rows, missed, events>>

\* ... and then hidden by set_device_active().
HideMember ==
  /\ merge.at = "hide"
  /\ active' = active \ {merge.file}
  /\ recent' = Touch(recent, merge.file)
  /\ merge' = IF merge.todo = {} THEN Resting ELSE [merge EXCEPT !.at = "add"]
  /\ UNCHANGED <<ids, customer, members, missed, events>>

\* undo_all() reads all mappings, shows their members again ...
StartUndo ==
  /\ merge.at = "idle" /\ members # {} /\ Event
  /\ merge' = [Resting EXCEPT !.at = "show", !.plan = members, !.todo = members]
  /\ UNCHANGED <<rows, members, missed>>

\* Mutation of ShowMember: the rows are not shown again.
ShowMemberNot ==
  \E pair \in merge.todo :
    /\ merge.at = "show"
    /\ merge' = [merge EXCEPT !.todo = @ \ {pair}, !.at = IF merge.todo = {pair} THEN "clear" ELSE @]
    /\ UNCHANGED <<rows, missed, members, events>>

ShowMember ==
  \E pair \in merge.todo :
    /\ merge.at = "show"
    /\ active' = active \cup {pair[2]}
    /\ recent' = Touch(recent, pair[2])
    /\ missed' = missed \ {pair[2]}
    /\ merge' = [merge EXCEPT !.todo = @ \ {pair}, !.at = IF merge.todo = {pair} THEN "clear" ELSE @]
    /\ UNCHANGED <<ids, customer, members, events>>

\* ... and then clears the members of each primary it has read.
ClearMembers ==
  \E primary \in {pair[1] : pair \in merge.plan} :
    LET left == {pair \in merge.plan : pair[1] # primary}
    IN /\ merge.at = "clear"
       /\ members' = {pair \in members : pair[1] # primary}
       /\ merge' = IF left = {} THEN Resting ELSE [merge EXCEPT !.plan = left]
       /\ UNCHANGED <<rows, missed, events>>

MergeInterrupted ==
  /\ merge.at # "idle" /\ Event
  /\ merge' = Resting
  /\ UNCHANGED <<rows, members, missed>>

MergeNext ==
  /\ \/ PlanMerges \/ AddMember \/ HideMember
     \/ StartUndo \/ ShowMember \/ ClearMembers \/ MergeInterrupted
  /\ fresh' = (merge'.at \in {"add", "hide"} /\ (merge.at = "idle" \/ fresh))
  /\ quiet' = FALSE
  /\ UNCHANGED <<files, access, sync, given>>
-----------------------------------------------------------------------------
(* The administrator's forms and tools.                                     *)

\* upsert_customer_device_rule() makes the rule the newest one; the request and
\* tools/add_customer_device_rule.py then apply the rules to all devices.
SaveRule(r) ==
  /\ sync["rules"].at = "idle"
  /\ rules' = Append(RemoveFirst(rules, r), r)
  /\ given' = given \cup (r.keys \X {r.customer})
  /\ sync' = [sync EXCEPT !["rules"] = [Idle EXCEPT !.at = "list"]]
  /\ UNCHANGED <<rows, account, grants>>

\* delete_customer_device_rule(): what the rule has assigned stays.
DeleteRule(r) ==
  /\ r \in ToSet(rules)
  /\ rules' = RemoveFirst(rules, r)
  /\ UNCHANGED <<rows, sync, account, grants, given>>

\* update_device_metadata() writes every field, an empty customer included.
EditDevice(f, c) ==
  /\ customer' = [customer EXCEPT ![f] = c]
  /\ recent' = Touch(recent, f)
  /\ given' = IF c = None THEN given ELSE given \cup {<<KeyOf[f], c>>}
  /\ UNCHANGED <<ids, active, rules, account, grants, sync>>

\* stage5_create_or_update_user_safe() and assign_user_customer()
SaveUser(u, a) ==
  /\ account' = [account EXCEPT ![u] = a]
  /\ UNCHANGED <<rows, rules, grants, sync, given>>
AssignUser(u, c) == SaveUser(u, [account[u] EXCEPT !.customer = c])

\* grant_device() and revoke_device(); tools/grant_device.py grants hidden rows too.
SetGrant(u, f, granted) ==
  /\ granted # (<<u, f>> \in grants)
  /\ grants' = IF granted THEN grants \cup {<<u, f>>} ELSE grants \ {<<u, f>>}
  /\ UNCHANGED <<rows, rules, account, sync, given>>

AdminNext ==
  /\ Event
  /\ \/ \E r \in RuleSet : SaveRule(r) \/ DeleteRule(r)
     \/ \E f \in active, c \in Customers \cup {None} : EditDevice(f, c)
     \/ \E u \in Users, a \in Forms : SaveUser(u, a)
     \/ \E u \in Users, c \in Customers \cup {None} : AssignUser(u, c)
     \/ \E u \in Users, f \in Known, granted \in BOOLEAN : SetGrant(u, f, granted)
  /\ quiet' = FALSE
  /\ UNCHANGED <<files, members, merge, missed, fresh>>
-----------------------------------------------------------------------------
(* The receiver's files, as the portal meets them.                          *)

Arrive(f) ==
  /\ arrived[f] < Len(Arrivals[f]) /\ Event
  /\ arrived' = [arrived EXCEPT ![f] = @ + 1]
  /\ data' = [data EXCEPT ![f] = @ \cup {Arrivals[f][arrived'[f]]}]

\* A file is moved away; the next record begins a new one.
MoveAway(f) ==
  /\ f \in OnDisk /\ Event
  /\ data' = [data EXCEPT ![f] = {}]
  /\ UNCHANGED arrived

FilesNext ==
  /\ \E f \in Files : Arrive(f) \/ MoveAway(f)
  /\ fresh' = FALSE
  /\ UNCHANGED <<rows, access, members, sync, merge, missed, given, quiet>>

Syncing == \E a \in Syncers : sync[a].at # "idle"
Crossing == crossed' = (crossed \/ MergeInterrupted \/ (merge'.at # "idle" /\ Syncing'))
Next ==
  /\ \/ \E a \in Syncers : SyncNext(a)
     \/ MergeNext \/ AdminNext \/ FilesNext
  /\ Crossing

\* The device sync runs periodically and to its end; files that cannot be read
\* and interruptions are among the bounded events.
Spec == Init /\ [][Next]_vars /\ WF_vars(SyncNext("tool") /\ Crossing)
-----------------------------------------------------------------------------
(* What users see.                                                          *)

\* get_user_by_id(): each request looks for the row of its session's user again.
SignedIn(u) == account[u].active

\* list_devices() and get_device_for_user(): an administrator all active
\* devices, others those granted to them or of their customer.
Visible(u) ==
  LET own == account[u].customer
  IN IF ~ SignedIn(u) THEN {}
     ELSE IF account[u].admin THEN active
     ELSE {f \in active : <<u, f>> \in grants \/ (own # None /\ customer[f] = own)}

\* main._device_file_set(): the device's own file and those of its members, one
\* level deep.
FileSet(f) == {f} \cup {pair[2] : pair \in {q \in members : q[1] = f}}
-----------------------------------------------------------------------------
(* Properties.                                                              *)

\* The variables have their types; rows are numbered and dated once each, and
\* nothing but rows is active, merged, granted or assigned.
TypeOK ==
  /\ arrived \in [Files -> Nat] /\ data \in [Files -> SUBSET Nat]
  /\ Known \subseteq Files /\ ToSet(recent) = Known
  /\ Len(ids) = Cardinality(Known) /\ Len(recent) = Cardinality(Known)
  /\ active \subseteq Known /\ missed \subseteq Known
  /\ customer \in [Files -> Customers \cup {None}]
  /\ \A f \in Files : customer[f] # None => f \in Known
  /\ ToSet(rules) \subseteq RuleSet /\ Len(rules) = Cardinality(ToSet(rules))
  /\ members \subseteq Known \X Known /\ grants \subseteq Users \X Known
  /\ account \in [Users -> Account]
  /\ events \in 0 .. MaxEvents

\* No data gets lost from the portal: as long as the merge tool runs to its end
\* and beside no sync, from every hidden row the mappings lead, upwards, to a
\* device that is shown or whose file was missing; a row is hidden for one of
\* these reasons only, and no two rows hide each other.
NoOrphans ==
  crossed \/ \A S \in (SUBSET (Known \ (active \cup missed))) \ {{}} :
               \E pair \in members : pair[2] \in S /\ pair[1] \notin S

\* The files one run of the merge tool puts behind a device do not overlap in
\* time, the members with each other neither, if no record has come meanwhile.
MergedDisjoint ==
  merge.at \in {"add", "hide"} /\ fresh =>
    \A p, q \in merge.plan : p[1] = q[1] =>
      Disjoint(p[1], p[2]) /\ (p # q => Disjoint(p[2], q[2]))

\* When the tool's sync has ended and nobody else has acted meanwhile, no shown
\* device is left without a customer that a rule for its key or another shown
\* device with its key would give it.
SyncAssigns ==
  sync["tool"].at = "idle" /\ quiet =>
    \A f \in active : customer[f] = None =>
      /\ Matching(f) = {}
      /\ \A g \in active : KeyOf[g] = KeyOf[f] => customer[g] = None

\* An ordinary user reads no file but those of devices granted to him and of
\* devices, and members of devices, with a key that an administrator or a rule
\* has given his customer.
SeenByRight ==
  \A u \in Users : ~ account[u].admin =>
    \A f \in Visible(u) : \A g \in FileSet(f) :
      \/ \E h \in Files : <<u, h>> \in grants /\ KeyOf[h] = KeyOf[g]
      \/ <<KeyOf[g], account[u].customer>> \in given

\* When edits, faults and interruptions have ended, the registry settles: what is
\* shown is what is on disk and not merged.  A row hidden while its file was
\* missing or unreadable, or by a sync in the middle of an undo, comes back; a
\* member that was never hidden, or that a sync had looked up before it was
\* mapped, is hidden.
RegistrySettles == <>[](active = OnDisk \ MemberFiles)
=============================================================================
