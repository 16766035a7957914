----------------------------- MODULE IdGenerator -----------------------------
(***************************************************************************)
(* The generator of UUIDv7 identifiers (id/uuidv7.go), shared by every     *)
(* goroutine of a process.                                                 *)
(*                                                                         *)
(* nextSequence reads the wall clock and moves a millisecond and a 12-bit  *)
(* counter forward in one critical section; the identifier is assembled    *)
(* after it, so goroutines finish in any order.  The wall clock may go     *)
(* backwards.  An identifier is abstracted to its first 64 bits, which     *)
(* decide its order: the millisecond and the counter.  The 62 random bits  *)
(* behind them only tell apart identifiers of different processes.         *)
(***************************************************************************)
EXTENDS Integers

CONSTANTS
    Threads,      \* goroutines that generate identifiers
    MaxSequence,  \* maxSequence, the last value of the counter
    MaxClock      \* bound: the last millisecond of the wall clock

ASSUME ConstantsAssumption == MaxSequence \in Nat /\ MaxClock \in Nat \ {0}

VARIABLES
    clock,     \* the wall clock, in milliseconds
    lastMS,    \* the last millisecond used
    sequence,  \* the last counter used with it
    pc,        \* where a goroutine is in NewV7
    made,      \* the identifier a goroutine assembles or was last given
    newest,    \* history: the greatest identifier returned so far
    floor      \* history: newest when a goroutine called NewV7

vars == <<clock, lastMS, sequence, pc, made, newest, floor>>

Millis == 0..MaxClock
Instants == 1..MaxClock
Id == [ms : Millis, seq : 0..MaxSequence]

\* Nil, which NewV7 never returns, comes before every identifier.
Nil == [ms |-> 0, seq |-> 0]

\* Compare: byte order, the millisecond before the counter.
Less(a, b) == a.ms < b.ms \/ (a.ms = b.ms /\ a.seq < b.seq)

TypeOK ==
    /\ clock \in Instants
    /\ lastMS \in Millis
    /\ sequence \in 0..MaxSequence
    /\ pc \in [Threads -> {"idle", "next", "sleep", "assemble"}]
    /\ made \in [Threads -> Id]
    /\ newest \in Id
    /\ floor \in [Threads -> Id]

\* The process starts with lastMS = 0, a millisecond long past.
Init ==
    /\ clock \in Instants
    /\ lastMS = 0 /\ sequence = 0
    /\ pc = [t \in Threads |-> "idle"]
    /\ made = [t \in Threads |-> Nil]
    /\ newest = Nil
    /\ floor = [t \in Threads |-> Nil]

Call(t) ==
    /\ pc[t] = "idle"
    /\ pc' = [pc EXCEPT ![t] = "next"]
    /\ floor' = [floor EXCEPT ![t] = newest]
    /\ UNCHANGED <<clock, lastMS, sequence, made, newest>>

\* The two numbers go into fields of 48 and 12 bits, big-endian, so byte order
\* is the order of the pair.  Neither field loses a bit: a millisecond fits
\* until the year 10889, and maxSequence is the greatest 12-bit number.
Take(t) ==
    /\ made' = [made EXCEPT ![t] = [ms |-> lastMS', seq |-> sequence']]
    /\ pc' = [pc EXCEPT ![t] = "assemble"]

\* The clock has moved on: the counter starts again.
NewMillisecond(t) ==
    /\ pc[t] = "next"
    /\ clock > lastMS
    /\ lastMS' = clock
    /\ sequence' = 0
    /\ Take(t)
    /\ UNCHANGED <<clock, newest, floor>>

SameMillisecondWraps(t) ==
    /\ pc[t] = "next"
    /\ clock <= lastMS
    /\ sequence' = (sequence + 1) % (MaxSequence + 1)
    /\ UNCHANGED lastMS
    /\ Take(t)
    /\ UNCHANGED <<clock, newest, floor>>

\* It has not, or has gone back: the counter goes on.
SameMillisecond(t) ==
    /\ pc[t] = "next"
    /\ clock <= lastMS
    /\ sequence < MaxSequence
    /\ sequence' = sequence + 1
    /\ UNCHANGED lastMS
    /\ Take(t)
    /\ UNCHANGED <<clock, newest, floor>>

\* The counter is exhausted: the mutex is released and the goroutine sleeps.
Exhausted(t) ==
    /\ pc[t] = "next"
    /\ clock <= lastMS
    /\ sequence = MaxSequence
    /\ pc' = [pc EXCEPT ![t] = "sleep"]
    /\ UNCHANGED <<clock, lastMS, sequence, made, newest, floor>>

Wake(t) ==
    /\ pc[t] = "sleep"
    /\ pc' = [pc EXCEPT ![t] = "next"]
    /\ UNCHANGED <<clock, lastMS, sequence, made, newest, floor>>

\* NewV7 returns the identifier.
Return(t) ==
    /\ pc[t] = "assemble"
    /\ pc' = [pc EXCEPT ![t] = "idle"]
    /\ newest' = IF Less(newest, made[t]) THEN made[t] ELSE newest
    /\ UNCHANGED <<clock, lastMS, sequence, made, floor>>

\* The random bits cannot be read: the number is spent and nothing returned.
RandomFails(t) ==
    /\ pc[t] = "assemble"
    /\ pc' = [pc EXCEPT ![t] = "idle"]
    /\ made' = [made EXCEPT ![t] = Nil]
    /\ floor' = [floor EXCEPT ![t] = Nil]
    /\ UNCHANGED <<clock, lastMS, sequence, newest>>

\* The wall clock moves, forward or back.
ClockMoves ==
    /\ \E c \in Instants : clock' = c
    /\ UNCHANGED <<lastMS, sequence, pc, made, newest, floor>>

Next ==
    \/ \E t \in Threads :
          \/ Call(t)
          \/ NewMillisecond(t)
          \/ SameMillisecond(t)
          \/ Exhausted(t)
          \/ Wake(t)
          \/ Return(t)
          \/ RandomFails(t)
    \/ ClockMoves

Spec == Init /\ [][Next]_vars

-----------------------------------------------------------------------------
(* Properties                                                              *)

\* An identifier is greater than every identifier returned before its call
\* began, whatever the clock did and however the goroutines interleave:
\* identifiers are "monotonically ordered within a process".
CreationOrder ==
    \A t \in Threads : pc[t] = "assemble" => Less(floor[t], made[t])

\* No two goroutines are given the same millisecond and counter.
NoDuplicate ==
    \A t, u \in Threads :
        t # u /\ made[t] # Nil => made[t] # made[u]
=============================================================================
