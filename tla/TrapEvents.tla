----------------------------- MODULE TrapEvents -----------------------------
(***************************************************************************)
(* How the trap pipeline classifies an ONU: the status and offline-reason  *)
(* names that internal/utils/extractor.go produces from SNMP integers, the *)
(* event type that internal/trap/handler.go derives from them, and the     *)
(* severity of internal/trap/formatter.go.                                 *)
(*                                                                         *)
(* The code searches lower-cased names for words.  The names are finitely  *)
(* many, so the search is the set of words found in each name; the order   *)
(* in which the code tries the words is kept.                              *)
(***************************************************************************)
EXTENDS Integers

\* ExtractAndGetStatus: the status an SNMP integer stands for.
ExtractAndGetStatus(n) ==
    CASE n = 1 -> "Logging"
      [] n = 2 -> "LOS"
      [] n = 3 -> "Synchronization"
      [] n = 4 -> "Online"
      [] n = 5 -> "Dying Gasp"
      [] n = 6 -> "Auth Failed"
      [] n = 7 -> "Offline"
      [] OTHER -> "Unknown"

\* ExtractLastOfflineReason: the reason an SNMP integer stands for.
ExtractLastOfflineReason(n) ==
    CASE n = 2 -> "LOS"
      [] n = 3 -> "LOSi"
      [] n = 4 -> "LOFi"
      [] n = 5 -> "sfi"
      [] n = 6 -> "loai"
      [] n = 7 -> "loami"
      [] n = 8 -> "AuthFail"
      [] n = 9 -> "PowerOff"
      [] n = 10 -> "deactiveSucc"
      [] n = 11 -> "deactiveFail"
      [] n = 12 -> "Reboot"
      [] n = 13 -> "Shutdown"
      [] OTHER -> "Unknown"

\* The empty name is what a failed SNMP Get leaves in the detail.
Statuses == {ExtractAndGetStatus(n) : n \in 1..8} \cup {""}
Reasons  == {ExtractLastOfflineReason(n) : n \in 1..13} \cup {""}

\* strings.Contains(strings.ToLower(status), word)
StatusWords(s) ==
    CASE s = "Online"          -> {"online"}
      [] s = "Dying Gasp"      -> {"dying"}
      [] s = "LOS"             -> {"los"}
      [] s = "Auth Failed"     -> {"auth"}
      [] s = "Logging"         -> {"logging"}
      [] s = "Synchronization" -> {"sync"}
      [] s = "Offline"         -> {"offline"}
      [] OTHER                 -> {}

\* strings.Contains(strings.ToLower(reason), word)
ReasonWords(r) ==
    CASE r = "LOS"      -> {"los"}
      [] r = "LOSi"     -> {"los", "losi"}
      [] r = "LOFi"     -> {"lofi"}
      [] r = "AuthFail" -> {"auth", "authfail"}
      [] r = "PowerOff" -> {"power", "poweroff"}
      [] OTHER          -> {}

\* Mutant: the general word is tried before the specific one.
MutNormalize(r) ==
    LET has(w) == w \in ReasonWords(r)
    IN  IF has("los") THEN "LOS"
        ELSE IF has("losi") THEN "LOSi"
        ELSE IF has("lofi") THEN "LOFi"
        ELSE IF has("power") THEN "PowerOff"
        ELSE IF has("auth") THEN "AuthFailed"
        ELSE "Offline"

normalizeOfflineReason(r) ==
    LET has(w) == w \in ReasonWords(r)
    IN  IF has("losi") THEN "LOSi"
        ELSE IF has("lofi") THEN "LOFi"
        ELSE IF has("los") THEN "LOS"
        ELSE IF has("dying") THEN "DyingGasp"
        ELSE IF has("power") THEN "PowerOff"
        ELSE IF has("auth") THEN "AuthFailed"
        ELSE "Offline"

resolveEventType(status, reason) ==
    LET has(w) == w \in StatusWords(status)
    IN  IF has("online") THEN "Online"
        ELSE IF has("dying") THEN "DyingGasp"
        ELSE IF has("los") THEN "LOS"
        ELSE IF has("power") THEN "PowerOff"
        ELSE IF has("auth") THEN "AuthFailed"
        ELSE IF has("logging") THEN "Logging"
        ELSE IF has("sync") THEN "Synchronization"
        ELSE IF has("offline")
             THEN IF reason # "" THEN normalizeOfflineReason(reason) ELSE "Offline"
        ELSE "Online"

alertEventTypes ==
    {"LOS", "DyingGasp", "PowerOff", "Offline", "AuthFailed", "LOSi", "LOFi",
     "Logging", "Synchronization"}

PowerEventTypes == {"HighRxPower", "LowRxPower"}

eventSeverity(type) ==
    CASE type \in {"LOS", "LOSi", "LOFi", "Offline", "AuthFailed", "PowerOff"} -> "Critical"
      [] type \in {"Logging", "Synchronization"} -> "High"
      [] type \in PowerEventTypes -> "Medium"
      [] type = "DyingGasp" -> "Low"
      [] OTHER -> "Unknown"

Severities == {"Critical", "High", "Medium", "Low"}

\* The class of an RX power reading: above HighThreshold, below LowThreshold,
\* between the two, or not a number.
RxClasses == {"high", "low", "normal", "bad"}

PowerEvent(rx) ==
    CASE rx = "high" -> "HighRxPower"
      [] rx = "low"  -> "LowRxPower"
      [] OTHER       -> "none"

=============================================================================
