------------------------------- MODULE Settings -------------------------------
(***************************************************************************)
(* $STATE_DIR/config.json and the settings in memory (settings/store.ts,   *)
(* settings/validate.ts).  A setting is a number with a range.             *)
(***************************************************************************)
EXTENDS Naturals, TLC

CONSTANTS Fields, Lowest, Highest     \* the settings and their range

ASSUME RangeAssumption == Lowest \in Nat /\ Highest \in Nat /\ Lowest <= Highest

VARIABLES
  settings,     \* SettingsStore.current, or NotRunning when the process refused to start
  configFile

settingsVars == <<settings, configFile>>

Values   == 0 .. Highest + 1
InRange  == Lowest .. Highest
AllFields == [Fields -> Values]
NoConfig   == [f \in {} |-> 0]
Corrupt    == "not JSON" :> 0
NotRunning == "refused to start" :> 0

SettingsTypeOK ==
  /\ settings \in [Fields -> InRange] \cup {NotRunning}
  /\ configFile \in AllFields \cup {NoConfig, Corrupt}

\* (mutant: a file is taken up as it is)
AsStored(s) == s

\* coerceStoredSettings: what is out of range is moved into it.
Clamped(s) == [f \in Fields |-> IF s[f] < Lowest THEN Lowest
                                ELSE IF s[f] > Highest THEN Highest ELSE s[f]]

SettingsInit ==
  /\ settings = [f \in Fields |-> Lowest]
  /\ configFile = settings

Loaded(env) == IF configFile = NoConfig THEN Clamped(env) ELSE Clamped(configFile)

\* The constructor: the environment seeds a file that is missing; a corrupt one is kept
\* and the process does not start.
StartSettings(env) ==
  IF configFile = Corrupt
    THEN settings' = NotRunning /\ UNCHANGED configFile
    ELSE /\ settings' = Loaded(env)
         /\ configFile' = IF configFile = NoConfig THEN Loaded(env) ELSE configFile

Valid(patch) == \A f \in DOMAIN patch : patch[f] \in InRange

\* update: one value out of range rejects the whole patch.  When the file cannot be
\* written the call fails, with the new settings in memory.
UpdateSettings(patch) ==
  /\ settings # NotRunning
  /\ IF ~Valid(patch) THEN UNCHANGED settingsVars
     ELSE LET next == [f \in Fields |-> IF f \in DOMAIN patch THEN patch[f] ELSE settings[f]]
          IN  /\ settings' = next
              /\ configFile' = next \/ UNCHANGED configFile

\* An operator edits, breaks or removes the file.
EditConfigFile(content) ==
  /\ configFile' = content
  /\ UNCHANGED settings
=============================================================================
