---------------------------- MODULE NatsSessions ----------------------------
(***************************************************************************)
(* The cache of a session in the NATS broker (broker/nats.go,              *)
(* CommitSession, RestoreSession, TouchSession): one key of a bucket whose *)
(* TTL starts again with every Put.  The reader of the session commits its *)
(* state after a command (node.go); the timer of the session touches the   *)
(* key (session.go, handleTimerEvent) by a Get and a Put of what it got.   *)
(***************************************************************************)
EXTENDS Naturals

CONSTANTS MaxState,  \* bound: states the session goes through
          KeyTTL,    \* lifetime of the key, in ticks
          MaxTime,   \* bound: the clock
          None

SessionsAssumption ==
  /\ KeyTTL \in Nat
  /\ None \notin Nat
  /\ None \notin [value : Nat, at : Nat]

VARIABLES now,       \* the clock
          state,     \* the state of the session in its node
          committed, \* the last state that CommitSession has put
          key,       \* None, or the value of the key and when it was put
          touching,  \* None, or what the touch in progress got
          dirty,     \* commands done and not committed yet
          raced,     \* a touch put an older state over a newer one
          lastPut    \* when somebody last put the key

sessionVars == <<now, state, committed, key, touching, dirty, raced, lastPut>>

Init ==
  /\ now = 0
  /\ state = 0
  /\ committed = None
  /\ key = None
  /\ touching = None
  /\ dirty = FALSE
  /\ raced = FALSE
  /\ lastPut = 0

(* The key as the bucket shows it: expired keys are gone.                  *)
Alive == key # None /\ now < key.at + KeyTTL

Put(value) ==
  /\ key' = [value |-> value, at |-> now]
  /\ lastPut' = now

(* A command changes the state of the session; node.go commits it next.    *)
Command ==
  /\ ~dirty
  /\ state < MaxState
  /\ state' = state + 1
  /\ dirty' = TRUE
  /\ UNCHANGED <<now, committed, key, touching, raced, lastPut>>

(* Faulty variant: a key that exists is left alone (Create).               *)
CommitOnce ==
  /\ dirty
  /\ dirty' = FALSE
  /\ IF Alive THEN UNCHANGED <<key, lastPut>> ELSE Put(state)
  /\ committed' = state
  /\ UNCHANGED <<now, state, touching, raced>>

(* CommitSession serialises the session and puts it; an error is logged    *)
(* and forgotten.                                                          *)
CommitSession ==
  /\ dirty
  /\ dirty' = FALSE
  /\ \/ /\ Put(state)
        /\ committed' = state
        /\ raced' = FALSE
     \/ UNCHANGED <<key, committed, raced, lastPut>>
  /\ UNCHANGED <<now, state, touching>>

(* TouchSession, Get: an expired key is an error, and nothing more.        *)
TouchSession ==
  /\ touching = None
  /\ Alive
  /\ touching' = [value |-> key.value]
  /\ UNCHANGED <<now, state, committed, key, dirty, raced, lastPut>>

(* TouchSession, Put of the value it got, or the error of the Put.         *)
TouchPut ==
  /\ touching # None
  /\ touching' = None
  /\ \/ /\ Put(touching.value)
        /\ raced' = (raced \/ touching.value # committed)
     \/ UNCHANGED <<key, raced, lastPut>>
  /\ UNCHANGED <<now, state, committed, dirty>>

Tick ==
  /\ now < MaxTime
  /\ now' = now + 1
  /\ UNCHANGED <<state, committed, key, touching, dirty, raced, lastPut>>

Next == Command \/ CommitSession \/ TouchSession \/ TouchPut \/ Tick

Spec == Init /\ [][Next]_sessionVars

(* RestoreSession: the value of the key, nil when it is not found.         *)
RestoreSession == IF Alive THEN key.value ELSE None

-----------------------------------------------------------------------------
(* A session that was committed, and committed or touched since less than  *)
(* the TTL, is restored with its last committed state, unless a touch put  *)
(* back an older state over it.                                            *)
RestoresCommitted ==
  committed # None /\ now < lastPut + KeyTTL /\ ~raced =>
    RestoreSession = committed
=============================================================================
