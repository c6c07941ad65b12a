-------------------------------- MODULE Config --------------------------------
(***************************************************************************)
(* What the process runs with: Default and Load of                         *)
(* internal/config/config.go, and main's answer to a failed Load.          *)
(* Durations are in seconds.  The address and the bureau's name are left   *)
(* out: no operation reads them.                                           *)
(***************************************************************************)
EXTENDS Integers

CONSTANTS
  RawConfigs,   \* the configuration files an operator may provide
  Absent, Bad   \* a field that is missing or empty; one that is no duration,
                \* and a file that cannot be read or decoded

Durations == {"EscalationTimeout", "EscalationCheckInterval", "SyncReplayInterval"}

ASSUME ConfigAssumption ==
  /\ Absent \notin Int /\ Bad \notin Int /\ Absent # Bad
  /\ \A raw \in RawConfigs : raw # Bad =>
       /\ raw.SyncMaxAttempts \in Int     \* 0 when it is missing
       /\ \A f \in Durations : raw[f] \in Int \cup {Absent, Bad}

Default == [EscalationTimeout |-> 600, EscalationCheckInterval |-> 30,
            SyncReplayInterval |-> 15, SyncMaxAttempts |-> 5]

parseDuration(raw, fallback) == IF raw = Absent THEN fallback ELSE raw

\* No file, no JSON, or a field time.ParseDuration refuses.
LoadFailsUnread(raw) == raw = Bad
LoadFails(raw) == raw = Bad \/ \E f \in Durations : raw[f] = Bad

\* A number of attempts is taken over only if it is positive; a duration
\* whatever its sign.
AttemptsAsGiven(raw) == raw.SyncMaxAttempts
Attempts(raw) ==
  IF raw.SyncMaxAttempts > 0 THEN raw.SyncMaxAttempts ELSE Default.SyncMaxAttempts

Load(raw) ==
  [f \in DOMAIN Default |->
     IF f \in Durations THEN parseDuration(raw[f], Default[f]) ELSE Attempts(raw)]

\* main falls back to the defaults as a whole when Load fails.
Loaded(raw) == IF LoadFails(raw) THEN Default ELSE Load(raw)

\* time.NewTicker panics on an interval that is not positive, and the process
\* with it; so these are the configurations it keeps running with.
Startable(c) == c.EscalationCheckInterval > 0 /\ c.SyncReplayInterval > 0
RunningConfigs == {c \in {Loaded(raw) : raw \in RawConfigs} : Startable(c)}
=============================================================================
