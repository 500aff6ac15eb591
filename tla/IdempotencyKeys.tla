-------------------------- MODULE IdempotencyKeys --------------------------
(***************************************************************************)
(* IdempotencyStore: one JSON file of spent request keys, rewritten        *)
(* through a temporary file with one fixed name.  The order handlers use   *)
(* it on the event loop, one order at a time (LiveOrderService's lock).    *)
(* The nightly DataRetentionService.run is not a coroutine, so             *)
(* AsyncIOScheduler runs it, and IdempotencyStore.prune in it, on an       *)
(* executor thread, with no lock at all.  One action is one operation on   *)
(* a file; the process may crash between any two.                          *)
(***************************************************************************)
EXTENDS Naturals, FiniteSets

CONSTANTS
    Keys,          \* idempotency keys
    Loop,          \* the event loop
    Pruners,       \* executor threads that run the retention job
    Inodes,        \* file identities: the file, its successor, ...
    None,
    Torn,          \* what is not JSON: truncated, or written by two at once
    MaxOrders,     \* bound on the orders started
    MaxCrashes     \* bound on the number of crashes

Actors == Pruners \cup {Loop}

\* An entry's time stamp: within the retention period ("new"), beyond it
\* ("old"), or missing (the original {"key": "order id"} format).
Stamps  == {"absent", "legacy", "old", "new"}
Entries == [Keys -> Stamps]

ASSUME ConstantsOK ==
    /\ Loop \notin Pruners /\ None \notin Inodes /\ None \notin Keys
    /\ Torn \notin Entries
    /\ IsFiniteSet(Inodes) /\ Cardinality(Inodes) >= 2
    /\ MaxOrders \in Nat /\ MaxCrashes \in Nat

VARIABLES
    disk,        \* contents by inode: Entries or Torn
    file, tmp,   \* inode of idempotency.json and of idempotency.tmp
    pc,          \* where each actor is
    goal,        \* what each actor reads or writes for
    mem,         \* the dict each actor works on
    fd,          \* the inode each actor has open for writing
    key,         \* the key of the request being handled
    up,          \* the startup maintenance is over
    orders, crashes,
    sent,        \* history: orders let through per key, within its retention
    overlapped   \* history: two rewrites of the file were once under way

vars == <<disk, file, tmp, pc, goal, mem, fd, key, up, orders, crashes, sent, overlapped>>

Goals == {"none", "ensure", "remember", "prune"}

TypeOK ==
    /\ disk \in [Inodes -> Entries \cup {Torn}]
    /\ file \in Inodes /\ tmp \in Inodes \cup {None} /\ tmp # file
    /\ pc \in [Actors -> {"idle", "read", "await", "open", "fill", "replace"}]
    /\ goal \in [Actors -> Goals]
    /\ mem \in [Actors -> Entries]
    /\ fd \in [Actors -> Inodes \cup {None}]
    /\ key \in Keys \cup {None}
    /\ up \in BOOLEAN /\ overlapped \in BOOLEAN
    /\ orders \in 0..MaxOrders /\ crashes \in 0..MaxCrashes
    /\ sent \in [Keys -> Nat]

Empty == [k \in Keys |-> "absent"]

\* Files left by earlier runs, in the old format or the new one.
Init ==
    /\ \E i \in Inodes, old \in [Keys -> {"absent", "legacy", "new"}] :
         /\ file = i
         /\ disk = [j \in Inodes |-> IF j = i THEN old ELSE Torn]
         /\ sent = [k \in Keys |-> IF old[k] = "absent" THEN 0 ELSE 1]
    /\ tmp = None
    /\ pc = [a \in Actors |-> "idle"]
    /\ goal = [a \in Actors |-> "none"]
    /\ mem = [a \in Actors |-> Empty]
    /\ fd = [a \in Actors |-> None]
    /\ key = None /\ up = FALSE /\ orders = 0 /\ crashes = 0
    /\ overlapped = FALSE

\* History: two actors are about to replace what they have read.
NoteOverlap ==
    overlapped' = (overlapped \/ \E a, b \in Actors :
                     a # b /\ pc'[a] \in {"open", "fill", "replace"}
                           /\ pc'[b] \in {"open", "fill", "replace"})

-----------------------------------------------------------------------------
\* An order request arrives: ensure_new first.
StartOrder(k) ==
    /\ up /\ pc[Loop] = "idle" /\ orders < MaxOrders
    /\ orders' = orders + 1
    /\ key' = k
    /\ pc' = [pc EXCEPT ![Loop] = "read"]
    /\ goal' = [goal EXCEPT ![Loop] = "ensure"]
    /\ UNCHANGED <<disk, file, tmp, mem, fd, up, crashes, sent, overlapped>>

\* The snapshot has arrived and the record is journalled: remember.
Resume ==
    /\ pc[Loop] = "await"
    /\ pc' = [pc EXCEPT ![Loop] = "read"]
    /\ goal' = [goal EXCEPT ![Loop] = "remember"]
    /\ UNCHANGED <<disk, file, tmp, mem, fd, key, up, orders, crashes, sent, overlapped>>

\* The handler returned before it came to remember.
Abandon ==
    /\ pc[Loop] = "await"
    /\ pc' = [pc EXCEPT ![Loop] = "idle"]
    /\ goal' = [goal EXCEPT ![Loop] = "none"]
    /\ key' = None
    /\ UNCHANGED <<disk, file, tmp, mem, fd, up, orders, crashes, sent, overlapped>>

\* The retention job: at startup on the loop, at 03:10 on a thread.
StartPrune(a) ==
    /\ pc[a] = "idle"
    /\ IF a = Loop THEN ~up ELSE up
    /\ pc' = [pc EXCEPT ![a] = "read"]
    /\ goal' = [goal EXCEPT ![a] = "prune"]
    /\ UNCHANGED <<disk, file, tmp, mem, fd, key, up, orders, crashes, sent, overlapped>>

-----------------------------------------------------------------------------
\* _read_raw: what is not JSON counts as empty.
Raw == IF disk[file] = Torn THEN Empty ELSE disk[file]

\* Mutant: entries without a time stamp are dropped as well.
KeptDated(d) == [k \in Keys |-> IF d[k] = "new" THEN "new" ELSE "absent"]

\* _normalize and _pruned: a legacy entry is dated now, an old one dropped.
Kept(d) == [k \in Keys |-> CASE d[k] = "legacy" -> "new"
                             [] d[k] = "old"    -> "absent"
                             [] OTHER           -> d[k]]

\* Where actor a goes when the _read for its goal has returned entries d.
AfterRead(a, d) ==
    CASE goal[a] = "ensure" ->
           /\ pc' = [pc EXCEPT ![a] = IF d[key] = "absent" THEN "await" ELSE "idle"]
           /\ goal' = [goal EXCEPT ![a] = "none"]
           /\ mem' = [mem EXCEPT ![a] = d]
           /\ key' = IF d[key] = "absent" THEN key ELSE None
           /\ UNCHANGED up
      [] goal[a] = "remember" ->
           /\ pc' = [pc EXCEPT ![a] = "open"]
           /\ goal' = [goal EXCEPT ![a] = "none"]
           /\ mem' = [mem EXCEPT ![a] = [d EXCEPT ![key] = "new"]]
           /\ UNCHANGED <<key, up>>
      [] goal[a] = "prune" ->
           /\ pc' = [pc EXCEPT ![a] = "idle"]
           /\ goal' = [goal EXCEPT ![a] = "none"]
           /\ mem' = [mem EXCEPT ![a] = d]
           /\ up' = (up \/ a = Loop)
           /\ UNCHANGED key

\* _read: the file is rewritten first if normalising or pruning changed it.
Read(a) ==
    /\ pc[a] = "read"
    /\ LET d == Kept(Raw) IN
         IF d = Raw
         THEN AfterRead(a, d)
         ELSE /\ pc' = [pc EXCEPT ![a] = "open"]
              /\ mem' = [mem EXCEPT ![a] = d]
              /\ UNCHANGED <<goal, key, up>>
    /\ NoteOverlap
    /\ UNCHANGED <<disk, file, tmp, fd, orders, crashes, sent>>

\* _write, open(temp, "w"): created, or truncated if it is there.
Open(a) ==
    /\ pc[a] = "open"
    /\ \E i \in IF tmp # None THEN {tmp}
                ELSE {j \in Inodes : j # file /\ \A b \in Actors : fd[b] # j} :
         /\ tmp' = i
         /\ disk' = [disk EXCEPT ![i] = Torn]
         /\ fd' = [fd EXCEPT ![a] = i]
    /\ pc' = [pc EXCEPT ![a] = "fill"]
    /\ NoteOverlap
    /\ UNCHANGED <<file, goal, mem, key, up, orders, crashes, sent>>

\* The text is written and the file closed.  On top of another actor's text,
\* the result may be a mixture.
Fill(a) ==
    /\ pc[a] = "fill"
    /\ \E d \in {mem[a]} \cup (IF disk[fd[a]] = Torn THEN {} ELSE {Torn}) :
         disk' = [disk EXCEPT ![fd[a]] = d]
    /\ fd' = [fd EXCEPT ![a] = None]
    /\ pc' = [pc EXCEPT ![a] = "replace"]
    /\ NoteOverlap
    /\ UNCHANGED <<file, tmp, goal, mem, key, up, orders, crashes, sent>>

\* temp.replace(path), and the rest of the operation.
Replace(a) ==
    /\ pc[a] = "replace" /\ tmp # None
    /\ file' = tmp
    /\ tmp' = None
    /\ IF goal[a] = "none"
       THEN /\ sent' = [sent EXCEPT ![key] = @ + 1]     \* remember returned
            /\ pc' = [pc EXCEPT ![a] = "idle"]
            /\ key' = None
            /\ UNCHANGED <<goal, mem, up>>
       ELSE AfterRead(a, mem[a]) /\ UNCHANGED sent
    /\ NoteOverlap
    /\ UNCHANGED <<disk, fd, orders, crashes>>

\* Somebody else has moved the temporary file away: FileNotFoundError.
ReplaceRaises(a) ==
    /\ pc[a] = "replace" /\ tmp = None
    /\ pc' = [pc EXCEPT ![a] = "idle"]
    /\ goal' = [goal EXCEPT ![a] = "none"]
    /\ key' = IF a = Loop THEN None ELSE key
    /\ UNCHANGED <<disk, file, tmp, mem, fd, up, orders, crashes, sent, overlapped>>

-----------------------------------------------------------------------------
\* The retention period of an entry is over.
Expire(k) ==
    LET aged(d) == IF d = Torn THEN Torn
                   ELSE [d EXCEPT ![k] = IF @ = "new" THEN "old" ELSE @] IN
    /\ sent[k] > 0 /\ key # k
    /\ Raw[k] = "new"
    /\ disk' = [i \in Inodes |-> aged(disk[i])]
    /\ mem' = [a \in Actors |-> aged(mem[a])]
    /\ sent' = [sent EXCEPT ![k] = 0]
    /\ UNCHANGED <<file, tmp, pc, goal, fd, key, up, orders, crashes, overlapped>>

\* The process dies; the files stay, the temporary one included.
Crash ==
    /\ crashes < MaxCrashes
    /\ crashes' = crashes + 1
    /\ up' = FALSE
    /\ pc' = [a \in Actors |-> "idle"]
    /\ goal' = [a \in Actors |-> "none"]
    /\ mem' = [a \in Actors |-> Empty]
    /\ fd' = [a \in Actors |-> None]
    /\ key' = None
    /\ UNCHANGED <<disk, file, tmp, orders, sent, overlapped>>

Next ==
    \/ \E k \in Keys : StartOrder(k) \/ Expire(k)
    \/ Resume \/ Abandon
    \/ \E a \in Actors :
         StartPrune(a) \/ Read(a) \/ Open(a) \/ Fill(a) \/ Replace(a) \/ ReplaceRaises(a)
    \/ Crash

Spec == Init /\ [][Next]_vars

-----------------------------------------------------------------------------
\* ARCHITECTURE.md 551: no second order with the same idempotency key (as long
\* as the key is retained).
NoKeyTwice == \A k \in Keys : sent[k] <= 1

\* A key is spent twice only after two rewrites of the file ran at the same
\* time: neither crashes between the file operations, nor left-over temporary
\* files, nor the migration of old entries lose a key.
LostOnlyByOverlap == NoKeyTwice \/ overlapped
=============================================================================
