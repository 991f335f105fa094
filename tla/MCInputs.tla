------------------------------ MODULE MCInputs ------------------------------
(***************************************************************************)
(* What an operator and a claim can feed the driver: every start of the    *)
(* process, and, once it runs, every configuration array of up to MaxLen   *)
(* entries, the layers of the device classes first, those of the claim     *)
(* after them.                                                             *)
(***************************************************************************)
EXTENDS Startup, CryptoConfig, FiniteSetsExt

CONSTANT MaxLen

VARIABLE configs

\* Gates as a later release may declare them.
laterGates ==
    [Graduated |-> [default |-> TRUE, stage |-> "GA", locked |-> TRUE],
     OptOut |-> [default |-> TRUE, stage |-> "GA", locked |-> FALSE],
     Retired |-> [default |-> FALSE, stage |-> "Deprecated", locked |-> FALSE]]

InputsInit ==
    /\ Init
    /\ configs = <<>>

Starting ==
    /\ Next
    /\ UNCHANGED configs

\* The plugin runs: its flags and the preflight are not looked at again.
Serve ==
    /\ pc = "running"
    /\ pc' = "serving"
    /\ machineID' = AutoDetect
    /\ skipEnv' = "unset"
    /\ node' = Fresh
    /\ gates' = {}
    /\ panicked' = FALSE
    /\ UNCHANGED <<pairs, parsed, settings, positive, checks, nErr, code, configs>>

\* One more layer.
AddLayer ==
    /\ pc = "serving"
    /\ Len(configs) < MaxLen
    /\ \E entry \in ConfigEntry : configs' = Append(configs, entry)
    /\ UNCHANGED vars

\* The next claim.
NextClaim ==
    /\ pc = "serving"
    /\ Len(configs) = MaxLen
    /\ configs' = <<>>
    /\ UNCHANGED vars

InputsNext == Starting \/ Serve \/ AddLayer \/ NextClaim

InputsSpec == InputsInit /\ [][InputsNext]_<<vars, configs>>

\* The layers of this driver that set the mode.
Setting == {i \in DOMAIN configs : configs[i].mine /\ configs[i].mode # NoMode}

\* The later layer overrides the earlier one, field by field: the effective
\* control-domain mode is that of the last entry of this driver that sets it,
\* so the claim's over the class's, and the built-in default when none does;
\* an entry of another driver, or one without the field, changes nothing
\* (Resolve and merge).
LastSetModeWins ==
    Resolves(configs) =>
       Resolve(configs) = IF Setting = {} THEN DefaultControlDomainMode
                          ELSE configs[Max(Setting)].mode
=============================================================================
