---------------------------- MODULE BrandVoices ----------------------------
(***************************************************************************)
(* Which brand voice the agents write in (app/api/brand_voice.py): a voice *)
(* is created, active or not, and activated; both switch the others off    *)
(* first, under a partial unique index that admits one active voice.       *)
(*                                                                         *)
(* A request is a transaction of session s.  An UPDATE ... WHERE is_active *)
(* finds its rows when it starts (Deactivate), waits for the locks of the  *)
(* ones another transaction has updated, looks at them again (Lock), and   *)
(* its writes appear at the commit.                                        *)
(***************************************************************************)
EXTENDS Integers, FiniteSets

CONSTANTS
  Sessions,    \* requests that may be open at a time
  Voices,      \* the brand_voice rows there may be
  MaxCalls     \* bound: requests in a behaviour

VARIABLES
  voices,      \* the rows created
  active,      \* the rows with is_active
  tx, calls

vars == <<voices, active, tx, calls>>

Idle == [op |-> "none"]

Init ==
  /\ voices = {}
  /\ active = {}
  /\ tx = [s \in Sessions |-> Idle]
  /\ calls = 0

Begin(s, t) ==
  /\ tx[s] = Idle
  /\ calls < MaxCalls
  /\ calls' = calls + 1
  /\ tx' = [tx EXCEPT ![s] = t]
  /\ UNCHANGED <<voices, active>>

\* create_brand_voice; a voice that is not born active switches nothing off.
CreateBrandVoice(s, v, isActive) ==
  /\ v \notin voices
  /\ Begin(s, [op |-> "create", voice |-> v, on |-> isActive,
               stage |-> IF isActive THEN "loaded" ELSE "locked", off |-> {}])

\* activate_brand_voice; a voice that is active already is left as it is.
ActivateBrandVoice(s, v) ==
  /\ v \in voices \ active
  /\ Begin(s, [op |-> "activate", voice |-> v, on |-> TRUE, stage |-> "loaded", off |-> {}])

\* _deactivate_others starts: the active rows it can see but its own voice.
Deactivate(s) ==
  /\ tx[s] # Idle /\ tx[s].stage = "loaded"
  /\ tx' = [tx EXCEPT ![s].stage = "waiting", ![s].off = active \ {tx[s].voice}]
  /\ UNCHANGED <<voices, active, calls>>

\* Rows another transaction has switched off or on and not committed.
HeldByOthers(s) ==
  UNION {tx[q].off \cup {tx[q].voice} :
           q \in {p \in Sessions \ {s} : tx[p] # Idle /\ tx[p].stage = "locked"}}

\* Mutant of SwitchOff: the deactivation is a transaction of its own.
SwitchOffAtOnce(rows) == active' = active \ rows

\* The rows' new values stay with the transaction until it commits.
SwitchOff(rows) == UNCHANGED active

\* It has the locks: rows that are no longer active are left alone.
Lock(s) ==
  /\ tx[s] # Idle /\ tx[s].stage = "waiting"
  /\ tx[s].off \cap HeldByOthers(s) = {}
  /\ tx' = [tx EXCEPT ![s].stage = "locked", ![s].off = @ \cap active]
  /\ SwitchOff(tx[s].off \cap active)
  /\ UNCHANGED <<voices, calls>>

\* Mutant of IndexAdmits: there is no index.
IndexMissing(on) == TRUE

\* idx_brand_voice_active.
IndexAdmits(on) == Cardinality(on) <= 1

\* The flush of the voice's own row, and the commit.
Commit(s) ==
  /\ tx[s] # Idle /\ tx[s].stage = "locked"
  /\ tx[s].op = "create" => tx[s].voice \notin voices
  /\ LET on == (active \ tx[s].off) \cup (IF tx[s].on THEN {tx[s].voice} ELSE {})
     IN IndexAdmits(on) /\ active' = on
  /\ voices' = voices \cup {tx[s].voice}
  /\ tx' = [tx EXCEPT ![s] = Idle]
  /\ UNCHANGED calls

\* A unique violation (409 of a creation, 500 of an activation) or any failure.
Rollback(s) ==
  /\ tx[s] # Idle
  /\ tx' = [tx EXCEPT ![s] = Idle]
  /\ UNCHANGED <<voices, active, calls>>

Next ==
  \E s \in Sessions :
    \/ \E v \in Voices : (\E on \in BOOLEAN : CreateBrandVoice(s, v, on))
                         \/ ActivateBrandVoice(s, v)
    \/ Deactivate(s) \/ Lock(s) \/ Commit(s) \/ Rollback(s)

Spec == Init /\ [][Next]_vars
-----------------------------------------------------------------------------
\* Once a voice is active exactly one is, however activations interleave: the
\* query of the content agent expects at most one row, and switching never
\* leaves the agents without a voice, not even when the new one cannot be
\* switched on (_deactivate_others, idx_brand_voice_active).
ExactlyOneVoiceStep == active # {} => Cardinality(active') = 1

ExactlyOneVoice == [][ExactlyOneVoiceStep]_vars
=============================================================================
