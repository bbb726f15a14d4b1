----------------------------- MODULE WifiSecurity -----------------------------
(***************************************************************************)
(* wifisecurity.cpp: the two settings of a profile that hold its Wi-Fi     *)
(* security, written by wifiSecurityApply and recognised by                *)
(* wifiSecurityDetect.  Only what tells the types apart is kept of the     *)
(* settings; a secret is a member of Secrets, "" if there is none.         *)
(***************************************************************************)

Types == {"None", "WepKey", "WepPassphrase", "Leap", "DynamicWep",
          "WpaPsk", "WpaEnterprise", "Sae", "Owe"}

Secrets == {"", "short", "long", "key13"}
Identities == {"", "user"}

\* nm_utils_wpa_psk_valid: 8 to 63 characters.
WpaPskValid(secret) == secret \in {"long", "key13"}

\* nm_utils_wep_key_valid: a key has 5 or 13 characters, a passphrase 1 to 64.
WepKeyValid(secret) == secret = "key13"
WepPassphraseValid(secret) == secret # ""

NeedsSecret(type) == type \notin {"None", "Owe"}
NeedsIdentity(type) == type \in {"Leap", "DynamicWep", "WpaEnterprise"}

\* 802-11-wireless-security, absent if it has no key management.
KeyMgmts == {"absent", "none", "ieee8021x", "wpa-psk", "wpa-eap", "sae", "owe"}
NoWsec == [mgmt |-> "absent", leap |-> FALSE, wepType |-> "", secret |-> ""]

\* 802-1x.
NoX == [present |-> FALSE, identity |-> "", secret |-> ""]

Security ==
    [wsec : [mgmt : KeyMgmts, leap : BOOLEAN, wepType : {"", "key", "passphrase"},
             secret : Secrets],
     x : [present : BOOLEAN, identity : Identities, secret : Secrets]]

\* Mutant: leaves the 802-1x setting behind.
Clear_WsecOnly(sec) == [sec EXCEPT !.wsec = NoWsec]

\* wifiSecurityClear
Clear(sec) == [wsec |-> NoWsec, x |-> NoX]

Open == [wsec |-> NoWsec, x |-> NoX]

\* What wifiSecurityApply asks of the credentials.
CredentialsValid(type, identity, secret) ==
    CASE type \in {"None", "Owe"} -> TRUE
      [] type = "WepKey" -> WepKeyValid(secret)
      [] type = "WepPassphrase" -> WepPassphraseValid(secret)
      [] type \in {"WpaPsk", "Sae"} -> WpaPskValid(secret)
      [] OTHER -> identity # "" /\ secret # ""

WsecOf(type, secret) ==
    CASE type = "WepKey" ->
            [NoWsec EXCEPT !.mgmt = "none", !.wepType = "key", !.secret = secret]
      [] type = "WepPassphrase" ->
            [NoWsec EXCEPT !.mgmt = "none", !.wepType = "passphrase", !.secret = secret]
      [] type = "Leap" -> [NoWsec EXCEPT !.mgmt = "ieee8021x", !.leap = TRUE]
      [] type = "DynamicWep" -> [NoWsec EXCEPT !.mgmt = "ieee8021x"]
      [] type = "WpaPsk" -> [NoWsec EXCEPT !.mgmt = "wpa-psk", !.secret = secret]
      [] type = "WpaEnterprise" -> [NoWsec EXCEPT !.mgmt = "wpa-eap"]
      [] type = "Sae" -> [NoWsec EXCEPT !.mgmt = "sae", !.secret = secret]
      [] OTHER -> [NoWsec EXCEPT !.mgmt = "owe"]

\* wifiSecurityApply with valid credentials; adding a setting replaces it.
Applied(sec, type, identity, secret) ==
    IF type = "None" THEN sec
    ELSE [wsec |-> WsecOf(type, secret),
          x |-> IF NeedsIdentity(type)
                THEN [present |-> TRUE, identity |-> identity, secret |-> secret]
                ELSE sec.x]

\* wifiSecurityDetect: WEP is recognised by its key, a secret.
Detected(sec) ==
    LET w == sec.wsec
    IN CASE w.mgmt = "none" /\ w.secret # "" ->
               IF w.wepType = "passphrase" THEN "WepPassphrase" ELSE "WepKey"
         [] w.mgmt = "wpa-psk" -> "WpaPsk"
         [] w.mgmt = "sae" -> "Sae"
         [] w.mgmt = "owe" -> "Owe"
         [] w.mgmt = "ieee8021x" -> IF w.leap THEN "Leap" ELSE "DynamicWep"
         [] w.mgmt = "wpa-eap" -> "WpaEnterprise"
         [] OTHER -> "None"

\* libnm: what NetworkManager sends of a profile has no secrets.
WithoutSecrets(sec) == [sec EXCEPT !.wsec.secret = "", !.x.secret = ""]

HasSecrets(sec) == sec.wsec.secret # "" \/ sec.x.secret # ""

\* NetworkManager: an update without any secret keeps the old ones.
Updated(old, new) ==
    IF HasSecrets(new) THEN new
    ELSE [new EXCEPT !.wsec.secret = IF new.wsec.mgmt = old.wsec.mgmt THEN old.wsec.secret ELSE "",
                     !.x.secret = IF new.x.present THEN old.x.secret ELSE ""]

SameButSecrets(a, b) ==
    /\ a.wsec.mgmt = b.wsec.mgmt /\ a.wsec.leap = b.wsec.leap
    /\ a.wsec.wepType = b.wsec.wepType
    /\ a.x.present = b.x.present /\ a.x.identity = b.x.identity

\* Up to its secrets, the setting of one of the types and nothing of another.
Coherent(sec) ==
    /\ sec.x.present \/ sec.x = NoX
    /\ \/ sec = Open
       \/ \E type \in Types \ {"None"}, identity \in Identities, secret \in Secrets :
             /\ CredentialsValid(type, identity, secret)
             /\ SameButSecrets(sec, Applied(Open, type, identity, secret))
=============================================================================
