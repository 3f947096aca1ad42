-------------------------- MODULE SettingsRegister --------------------------
(***************************************************************************)
(* What readers of a runtime setting may rely on, whatever caches stand    *)
(* between them and the settings table: a call returns a value that was    *)
(* the committed one less than TTL before the call began, or has been      *)
(* since.  SettingsCache implements this.                                  *)
(***************************************************************************)
EXTENDS Naturals, Sequences

CONSTANTS
  Readers,   \* concurrent calls of get_setting
  TTL,       \* _CACHE_TTL_SECONDS
  None

VARIABLES
  now,       \* time, in ticks
  saves,     \* saves[v]: when version v of the value was committed
  call       \* call[r]: None, or when r's call began and what it returned

vars == <<now, saves, call>>

\* Version 0 is the seeded value.
Current == Len(saves)

Init ==
  /\ now = 0
  /\ saves = <<>>
  /\ call = [r \in Readers |-> None]

Tick ==
  /\ now' = now + 1
  /\ UNCHANGED <<saves, call>>

Save ==
  /\ saves' = Append(saves, now)
  /\ UNCHANGED <<now, call>>

Invoke(r) ==
  /\ call[r] = None
  /\ call' = [call EXCEPT ![r] = [started |-> now, value |-> None]]
  /\ UNCHANGED <<now, saves>>

Respond(r) ==
  /\ call[r] # None
  /\ call[r].value = None
  /\ \E v \in 0 .. Current :
       /\ v = Current \/ saves[v + 1] + TTL > call[r].started
       /\ call' = [call EXCEPT ![r].value = v]
  /\ UNCHANGED <<now, saves>>

\* Callers take their results, or their process dies with them.
Drop(R) ==
  /\ call' = [r \in Readers |-> IF r \in R THEN None ELSE call[r]]
  /\ UNCHANGED <<now, saves>>

Next ==
  \/ Tick
  \/ Save
  \/ \E r \in Readers : Invoke(r) \/ Respond(r)
  \/ \E R \in SUBSET Readers : Drop(R)

Spec == Init /\ [][Next]_vars
=============================================================================
