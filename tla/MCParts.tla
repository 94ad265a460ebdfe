------------------------------ MODULE MCParts ------------------------------
(***************************************************************************)
(* Five parts of the system that share no state, checked side by side:     *)
(* the initial choice of part says which of them takes the steps.          *)
(***************************************************************************)
EXTENDS MCAppTaskSwitch, DevManager, KeyDriver, TwsLink, TonePlayer

VARIABLE part

(* A mode's tone is one file; the other lists are a call: its number, the  *)
(* ring three times over, and a last file.                                 *)
MCToneFiles ==
  [t \in Tones |->
    IF t \in WithCb THEN <<File>>
    ELSE <<File, RepeatBegin(2), File, File, RepeatEnd, File>>]

PartsInit ==
  /\ part \in {"kernel", "devices", "keys", "tws", "tones"}
  /\ Init /\ DevInit /\ KeyInit /\ TwsInit /\ ToneInit
  /\ part # "tws" => ~gtws.stored

(* Nothing is left to do once the power is cut. *)
PowerIsOff == pc = "off" /\ UNCHANGED switchVars

PartsNext ==
  /\ \/ /\ part = "kernel" /\ UNCHANGED <<devVars, keyVars, twsVars, playerVars>>
        /\ Next \/ PowerIsOff
     \/ part = "devices" /\ DevNext /\ UNCHANGED <<switchVars, keyVars, twsVars, playerVars>>
     \/ part = "keys" /\ KeyNext /\ UNCHANGED <<switchVars, devVars, twsVars, playerVars>>
     \/ part = "tws" /\ TwsNext /\ UNCHANGED <<switchVars, devVars, keyVars, playerVars>>
     \/ part = "tones" /\ ToneNext /\ UNCHANGED <<switchVars, devVars, keyVars, twsVars>>
  /\ UNCHANGED part

partsVars == <<part, switchVars, devVars, keyVars, twsVars, playerVars>>

(* The fairness of each part, when it is the one that runs (in the others  *)
(* nothing of TwsFairness is ever enabled).                                *)
PartsSpec ==
  /\ PartsInit /\ [][PartsNext]_partsVars
  /\ WF_switchVars(part = "kernel" /\ Core)
  /\ WF_keyVars(part = "keys" /\ KeyNext)
  /\ WF_playerVars(part = "tones" /\ FileEnds)
  /\ TwsFairness
=============================================================================
