---------------------------- MODULE CryptoConfig ----------------------------
(***************************************************************************)
(* The opaque device configuration of a claim (internal/cryptoconfig): the *)
(* layering of its entries over the built-in defaults, and the verdict on  *)
(* the control-domain mode that results.                                   *)
(***************************************************************************)
EXTENDS Integers, Sequences

UsageOnly == "usage-only"
UsageAndControl == "usage-and-control"
AllControlDomains == "all-control-domains"

\* Every spelling of the custom 256-bit mask is one value, every spelling
\* outside the closed set another.
Modes == {UsageOnly, UsageAndControl, AllControlDomains, "custom-mask", "unknown"}

\* One entry of claim.Status.Allocation.Devices.Config: whether its opaque
\* driver is this driver, whether strict parsing accepts it, and the mode it
\* sets (NoMode when the field is absent).
NoMode == ""
ConfigEntry == [mine: BOOLEAN, parses: BOOLEAN, mode: Modes \cup {NoMode}]

DefaultControlDomainMode == UsageAndControl

\* Mutant: an entry without the field resets it.
mergeAlways(effective, entry) == entry.mode

merge(effective, entry) == IF entry.mode # NoMode THEN entry.mode ELSE effective

\* Resolve fails on the first entry of this driver that does not parse.
Resolves(configs) ==
    \A i \in DOMAIN configs : configs[i].mine => configs[i].parses

\* effective after every entry, from the built-in default on.
Layers(configs) ==
    LET effective[i \in 0 .. Len(configs)] ==
            IF i = 0 THEN DefaultControlDomainMode
            ELSE IF configs[i].mine THEN merge(effective[i - 1], configs[i])
            ELSE effective[i - 1]
    IN  effective

\* The effective mode, defined when Resolves(configs).
Resolve(configs) == Layers(configs)[Len(configs)]

ClassifyControlDomainMode(mode) ==
    CASE mode \in {UsageOnly, UsageAndControl} -> "Enabled"
      [] mode \in {AllControlDomains, "custom-mask"} -> "NotEnabled"
      [] OTHER -> "Unknown"

ValidateControlDomainMode(mode) == ClassifyControlDomainMode(mode) = "Enabled"
=============================================================================
