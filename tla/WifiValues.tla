------------------------------ MODULE WifiValues ------------------------------
(***************************************************************************)
(* The validating constructors of src/wifi.rs and the security profiles of *)
(* src/wifi/security.rs.  An address or a name is a model value, an SSID   *)
(* or a passphrase a sequence of bytes.                                    *)
(***************************************************************************)
EXTENDS Integers, Sequences

\* WorkBudget of src/incremental.rs
WorkBudgetOk(maxEvents, maxTime) == maxEvents # 0 /\ maxTime # 0

TimeoutOk(milliseconds) == ~(milliseconds = 0)

SsidOk(bytes) == ~(bytes = <<>> \/ Len(bytes) > 32)

\* try_from_ascii refuses the control characters of ASCII and nothing else.
PassphraseOk(bytes) ==
  ~(\/ Len(bytes) \notin 8 .. 63
    \/ \E i \in 1 .. Len(bytes) : bytes[i] < 32 \/ bytes[i] = 127)

\* The storage a dropped Passphrase leaves behind.
Erased(passphrase) == [i \in 1 .. Len(passphrase) |-> 0]

Security ==
  {"Open", "Wpa2Personal", "Wpa3Personal", "Wpa2Wpa3PersonalTransition", "OtherProtected"}
SaePwe == {"HuntAndPeck", "HashToElement", "Both"}

Wpa2 == [mode |-> "Wpa2"]
Wpa3(pwe) == [mode |-> "Wpa3", saePwe |-> pwe]
PersonalSecurity == {Wpa2} \cup {Wpa3(pwe) : pwe \in SaePwe}

ManagementFrameProtection(security) ==
  IF security.mode = "Wpa3" THEN "Required" ELSE "Optional"

Wpa2Selectable(security) == security \in {"Wpa2Personal", "Wpa2Wpa3PersonalTransition"}
Wpa3Selectable(security) == security \in {"Wpa3Personal", "Wpa2Wpa3PersonalTransition"}

\* wpa2_personal and wpa3_personal: what both take from the scan result.
StationConfig(result, passphrase, security) ==
  [ssid |-> result.ssid, bssid |-> result.bssid, channel |-> result.channel,
   passphrase |-> passphrase, security |-> security]
=============================================================================
