----------------------------- MODULE VirtualDisk -----------------------------
(***************************************************************************)
(* What xmount promises the users of the file it emulates: a disk.         *)
(*                                                                         *)
(* A request names the cells of the disk it covers.  Requests are served   *)
(* one at a time.  While a write is served its cells change to the new     *)
(* contents in any grouping and no other cell changes; it may be reported  *)
(* as done only when all of them have changed.  A read returns what the    *)
(* cells hold when it is answered.  Killing the program loses the requests *)
(* in progress and nothing that was reported as done.                      *)
(***************************************************************************)
EXTENDS Naturals, Sequences

CONSTANTS
  Threads,    \* the FUSE worker threads that deliver requests
  NoThread,   \* "no request is being served"
  Cells,      \* the addressable cells of the disk
  Values,     \* what a cell can hold
  Pristine,   \* the contents of the unmodified disk
  MayDiscard  \* whether the user may throw all changes away

VARIABLES
  disk,       \* [Cells -> Values]
  call,       \* call[t]: the last request of thread t and its answer
  busy        \* the thread whose request is being served, or NoThread

vars == <<disk, call, busy>>

NoCall == [state |-> "none"]

Pending == [state : {"pending"}, op : {"read"}, cells : Seq(Cells)]
             \cup [state : {"pending"}, op : {"write"},
                   cells : Seq(Cells), data : Seq(Values)]

\* The disk after the cells cells[i], i \in S, have taken the values data[i].
Overlay(cells, data, S) ==
  [c \in Cells |-> IF \E i \in S : cells[i] = c
                   THEN data[CHOOSE i \in S : cells[i] = c]
                   ELSE disk[c]]

Init ==
  /\ disk = Pristine
  /\ call = [t \in Threads |-> NoCall]
  /\ busy = NoThread

\* A thread delivers a request.
Start(t) ==
  /\ call[t].state # "pending"
  /\ call'[t] \in Pending
  /\ call' = [call EXCEPT ![t] = call'[t]]
  /\ UNCHANGED <<disk, busy>>

\* The request of t becomes the one being served.
Serve(t) ==
  /\ busy = NoThread
  /\ call[t].state = "pending"
  /\ busy' = t
  /\ UNCHANGED <<disk, call>>

\* Some cells of the write being served take their new contents.
Apply ==
  /\ busy # NoThread
  /\ call[busy].op = "write"
  /\ \E S \in SUBSET (1..Len(call[busy].cells)) :
       disk' = Overlay(call[busy].cells, call[busy].data, S)

ApplyOnly == Apply /\ UNCHANGED <<call, busy>>

\* The write of t is answered: done, or failed with some of it applied.
AnswerWrite(t) ==
  /\ busy = t
  /\ call[t].op = "write"
  /\ \E ok \in BOOLEAN :
       /\ ok => \A i \in 1..Len(call[t].cells) :
                  disk[call[t].cells[i]] = call[t].data[i]
       /\ call' = [call EXCEPT ![t] = [state |-> "done", ok |-> ok]]
  /\ busy' = NoThread
  /\ UNCHANGED disk

\* The read of t is answered with the contents of its cells, or fails.
AnswerRead(t) ==
  /\ busy = t
  /\ call[t].op = "read"
  /\ \E answer \in
         {[state |-> "done", ok |-> FALSE],
          [state |-> "done", ok |-> TRUE,
           data |-> [i \in 1..Len(call[t].cells) |-> disk[call[t].cells[i]]]]} :
       call' = [call EXCEPT ![t] = answer]
  /\ busy' = NoThread
  /\ UNCHANGED disk

\* The program ends, in order or not, and is started again later.
Restart ==
  /\ UNCHANGED disk \/ Apply
  /\ call' = [t \in Threads |-> NoCall]
  /\ busy' = NoThread

\* The program is started with the order to forget all changes.
Discard ==
  /\ MayDiscard
  /\ \A t \in Threads : call[t] = NoCall
  /\ disk' = Pristine
  /\ UNCHANGED <<call, busy>>

Next ==
  \/ \E t \in Threads : Start(t) \/ Serve(t) \/ AnswerWrite(t) \/ AnswerRead(t)
  \/ ApplyOnly
  \/ Restart
  \/ Discard

Spec == Init /\ [][Next]_vars
=============================================================================
