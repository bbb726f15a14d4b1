---------------------------- MODULE ProfileEditor ----------------------------
(***************************************************************************)
(* WifiConnectionEditorDialog, WiredConnectionEditorDialog and             *)
(* VpnConnectionEditorDialog, one open at a time, on one profile.  When it *)
(* edits, the dialog works on libnm's object of the profile itself, field  *)
(* by field, and only then commits it; libnm gives the object new settings *)
(* when NetworkManager announces a change.  A new profile is added by a    *)
(* call whose wait processes events, so that the dialog can be used while  *)
(* it waits: waits nest.                                                   *)
(*                                                                         *)
(* A profile is [mtu, mac, cloned, sec, ip, vpn], cloned being the address *)
(* a wired device is to show; its name and its SSID only matter in being   *)
(* there.                                                                  *)
(***************************************************************************)
EXTENDS Naturals, Sequences, WifiSecurity, Ipv4Config, VpnSettings

CONSTANTS
    Kinds,        \* what is edited: "wifi", "wired", "wireguard", VPN plugins
    Sealed,       \* libnm lets no one change the peer of a WireGuard profile
    OnOffer,      \* security types the primary device supports
    SecForms,     \* credentials the user may type: <<identity, secret>>
    Mtus,         \* entries of the MTU field, 0 if it is empty
    IpForms,      \* IpForms[k]: entries of the IPv4 fields
    VpnForms,     \* VpnForms[k]: entries of the fields of a VPN
    Foreign,      \* Foreign[k]: profiles other programs may store
    MaxWaits,     \* nested waits
    MaxSaves      \* clicks on Save in one dialog

ASSUME EditorAssumption ==
    /\ Kinds \subseteq PluginKinds \cup {"wifi", "wired", "wireguard"} /\ Sealed \in BOOLEAN
    /\ OnOffer \subseteq Types /\ "None" \in OnOffer
    /\ SecForms \subseteq Identities \X Secrets
    /\ Mtus \subseteq Nat /\ 0 \in Mtus
    /\ \A k \in Kinds : IpForms[k] \subseteq IpForm /\ VpnForms[k] \subseteq VpnForm
    /\ \A k \in Kinds \ PluginKinds : \A f \in VpnForms[k] : f.password = ""
    /\ MaxWaits \in Nat /\ MaxSaves \in Nat

VARIABLES
    kind,        \* the kind of the profile, and so the editor
    stored,      \* the profile NetworkManager has, or Gone
    live,        \* libnm's object of it, or m_newConnection
    announced,   \* NetworkManager has announced a change libnm has not applied
    dialog,      \* "closed", "shown" or "hidden" (closed by the user during a wait)
    accepted,    \* the result of the dialog
    isNew,       \* m_isNew
    loaded,      \* m_loadedSecurityType
    keys,        \* m_serverKey and m_passwordKey
    form,        \* the fields
    waits,       \* addConnectionProfile, the innermost last
    added,       \* profiles NetworkManager has added for this dialog
    saves,       \* bound: clicks on Save
    dirty,       \* history: live differs from what libnm had when the dialog loaded it
    touched      \* history: the user has been at the type or the identity

vars == <<kind, stored, live, announced, dialog, accepted, isNew, loaded, keys, form, waits,
          added, saves, dirty, touched>>

Gone == [gone |-> TRUE]
MacSet == {"", "mac"}
MtuSet == {0} \cup 68..9000
Profile == [mtu : MtuSet, mac : MacSet, cloned : MacSet, sec : Security, ip : IpSetting,
            vpn : Vpn]

\* Other programs store what NetworkManager takes: the security of one type, and
\* the addresses that the IPv4 method has.
ASSUME ForeignAssumption ==
    \A k \in Kinds : \A p \in Foreign[k] :
        p \in Profile /\ Coherent(p.sec) /\ IpCoherent(p.ip)

Template == [mtu |-> 0, mac |-> "", cloned |-> "", sec |-> Open, ip |-> Automatic, vpn |-> NoVpn]

Wait == [profile : Profile, answer : {"none", "added", "refused"}]

Form == [complete : BOOLEAN, mtu : Nat, mac : MacSet, type : OnOffer,
         identity : Identities, secret : Secrets, ip : IpForm,
         vpn : VpnForm]

TypeOK ==
    /\ kind \in Kinds
    /\ stored \in Profile \cup {Gone} /\ live \in Profile \cup {Gone}
    /\ announced \in BOOLEAN /\ dialog \in {"closed", "shown", "hidden"}
    /\ accepted \in BOOLEAN /\ isNew \in BOOLEAN /\ loaded \in Types
    /\ keys \in Keys
    /\ form \in Form
    /\ waits \in Seq(Wait) /\ Len(waits) <= MaxWaits
    /\ added \in 0..MaxSaves /\ saves \in 0..MaxSaves
    /\ dirty \in BOOLEAN /\ touched \in BOOLEAN
    /\ dialog = "closed" => waits = <<>>

-----------------------------------------------------------------------------
(* saveProfile up to the commit: [ok, profile], the profile with what has   *)
(* been changed before the failure.                                         *)

\* Mutant: accepts one less than the smallest MTU.
MtuValid_OffByOne(mtu) == mtu \in 67..9000

MtuValid(mtu) == mtu \in 68..9000

SaveMtu(p, f) ==
    IF f.mtu = 0 \/ MtuValid(f.mtu) THEN [ok |-> TRUE, profile |-> [p EXCEPT !.mtu = f.mtu]]
                                    ELSE [ok |-> FALSE, profile |-> p]

\* Mutant: the password field does not count as long as the type stays.
Rewrites_TypeOnly(f) == f.type # loaded \/ isNew

\* The security is written anew: a new profile, a new type or a new password.
Rewrites(f) == f.type # loaded \/ isNew \/ f.secret # ""

\* Mutant: the security is cleared before it is known what to do with it.
SaveSecurity_ClearsFirst(p, f) ==
    IF CredentialsValid(f.type, f.identity, f.secret)
    THEN [ok |-> TRUE,
          profile |-> [p EXCEPT !.sec = Applied(Clear(@), f.type, f.identity, f.secret)]]
    ELSE [ok |-> ~Rewrites(f), profile |-> [p EXCEPT !.sec = Clear(@)]]

SaveSecurity(p, f) ==
    IF Rewrites(f)
    THEN IF CredentialsValid(f.type, f.identity, f.secret)
         THEN [ok |-> TRUE,
               profile |-> [p EXCEPT !.sec = Applied(Clear(@), f.type, f.identity, f.secret)]]
         ELSE [ok |-> FALSE, profile |-> [p EXCEPT !.sec = Clear(@)]]
    ELSE IF NeedsIdentity(f.type) /\ f.identity = ""
         THEN [ok |-> FALSE, profile |-> p]
         ELSE [ok |-> TRUE,
               profile |-> IF NeedsIdentity(f.type) /\ p.sec.x.present
                           THEN [p EXCEPT !.sec.x.identity = f.identity] ELSE p]

SaveIp(p, f) ==
    LET result == IpApply(p.ip, f.ip)
    IN [ok |-> result.ok, profile |-> [p EXCEPT !.ip = result.ip]]

SaveWifi(p, f) ==
    LET mtu == SaveMtu(p, f)
        sec == IF mtu.ok THEN SaveSecurity(mtu.profile, f) ELSE mtu
    IN IF sec.ok THEN SaveIp(sec.profile, f) ELSE sec

SaveWired(p, f) == SaveIp([p EXCEPT !.mac = f.mac, !.cloned = ""], f)

SaveVpn(p, f) ==
    LET result == VpnSave(kind, Sealed, keys, isNew, p.vpn, f.vpn)
    IN [ok |-> result.ok, profile |-> [p EXCEPT !.vpn = result.vpn]]

Saved(p, f) ==
    CASE ~f.complete -> [ok |-> FALSE, profile |-> p]
      [] f.complete /\ kind = "wifi" -> SaveWifi(p, f)
      [] f.complete /\ kind = "wired" -> SaveWired(p, f)
      [] OTHER -> SaveVpn(p, f)

-----------------------------------------------------------------------------
\* updateCredentialFields clears what the type does not need.
ForType(f, type) ==
    [f EXCEPT !.type = type,
              !.identity = IF NeedsIdentity(type) THEN @ ELSE "",
              !.secret = IF NeedsSecret(type) THEN @ ELSE ""]

\* The combo box stays at its first entry if the type is not on offer.
Loaded(p) ==
    LET type == Detected(p.sec)
        shown == IF type \in OnOffer THEN type ELSE "None"
        mac == IF p.mac = "" THEN p.cloned ELSE p.mac
    IN ForType([complete |-> TRUE, mtu |-> p.mtu, mac |-> mac, type |-> "None",
                identity |-> p.sec.x.identity, secret |-> "", ip |-> IpLoad(p.ip),
                vpn |-> VpnLoad(kind, p.vpn)], shown)

\* The profile as libnm's object shows it.
Sent(p) ==
    IF p = Gone THEN Gone
    ELSE [p EXCEPT !.sec = WithoutSecrets(@), !.vpn = VpnWithoutSecrets(@)]
Known == Sent(stored)

Init ==
    /\ kind \in Kinds
    /\ stored \in Foreign[kind] \cup {Gone}
    /\ live = Known
    /\ announced = FALSE /\ dialog = "closed" /\ accepted = FALSE /\ isNew = FALSE
    /\ loaded = "None" /\ form = Loaded(Template) /\ keys = KeysOf(kind, NoVpn)
    /\ waits = <<>> /\ added = 0 /\ saves = 0 /\ dirty = FALSE /\ touched = FALSE

Start(p, new) ==
    /\ dialog = "closed"
    /\ dialog' = "shown" /\ accepted' = FALSE /\ isNew' = new
    /\ live' = p /\ loaded' = Detected(p.sec) /\ form' = Loaded(p)
    /\ keys' = KeysOf(kind, p.vpn)
    /\ added' = 0 /\ saves' = 0 /\ touched' = FALSE
    /\ UNCHANGED <<stored, waits>>

\* One profile is modelled: a new one is made when there is none.
New == stored = Gone /\ Start(Template, TRUE) /\ dirty' = FALSE /\ announced' = FALSE

Edit == stored # Gone /\ live # Gone /\ Start(live, FALSE) /\ UNCHANGED <<dirty, announced>>

Enter(f) ==
    /\ dialog = "shown"
    /\ form' = f
    /\ UNCHANGED <<stored, live, announced, dialog, accepted, isNew, loaded, keys, waits,
                   added, saves, dirty>>

TypeField ==
    /\ \/ Enter([form EXCEPT !.complete = ~@])
       \/ kind = "wifi" /\ \E mtu \in Mtus : Enter([form EXCEPT !.mtu = mtu])
       \/ kind = "wired" /\ \E mac \in MacSet : Enter([form EXCEPT !.mac = mac])
       \/ \E ip \in IpForms[kind] : Enter([form EXCEPT !.ip = ip])
       \/ \E vpn \in VpnForms[kind] : Enter([form EXCEPT !.vpn = vpn])
    /\ UNCHANGED touched

ChooseSecurity ==
    /\ kind = "wifi"
    /\ \E type \in OnOffer : Enter(ForType(form, type))
    /\ touched' = TRUE

TypeCredentials ==
    /\ kind = "wifi"
    /\ \E c \in SecForms :
          Enter(ForType([form EXCEPT !.identity = c[1], !.secret = c[2]], form.type))
    /\ touched' = (touched \/ form'.identity # form.identity)

-----------------------------------------------------------------------------
Click ==
    /\ dialog = "shown" /\ saves < MaxSaves
    /\ saves' = saves + 1

\* Without a profile, or with a field that is refused, the dialog stays, under a
\* message box until the user closes it.
SaveFails ==
    /\ Click
    /\ \/ live = Gone /\ UNCHANGED <<live, dirty>>
       \/ /\ live # Gone /\ ~Saved(live, form).ok
          /\ live' = Saved(live, form).profile
          /\ dirty' = (dirty \/ live' # live)
    /\ UNCHANGED <<stored, announced, dialog, accepted, isNew, loaded, keys, form, waits,
                   added, touched>>

\* NetworkManager: an update without any secret keeps the old ones.
Merged(old, new) == [new EXCEPT !.sec = Updated(old.sec, @), !.vpn = VpnUpdated(old.vpn, @)]

\* NetworkManager answers a commit while the dialog is blocked.
SaveCommits ==
    /\ Click /\ ~isNew /\ live # Gone
    /\ Saved(live, form).ok
    /\ live' = Saved(live, form).profile
    /\ \/ /\ stored # Gone
          /\ stored' = Merged(stored, live')
          /\ announced' = TRUE /\ dialog' = "closed" /\ accepted' = TRUE
          /\ UNCHANGED dirty
       \/ dirty' = TRUE /\ UNCHANGED <<stored, announced, dialog, accepted>>
    /\ UNCHANGED <<isNew, loaded, keys, form, waits, added, touched>>

\* The dialog can be used while the call waits for its answer.
SaveAdds ==
    /\ Click /\ isNew /\ Len(waits) < MaxWaits
    /\ Saved(live, form).ok
    /\ live' = Saved(live, form).profile
    /\ waits' = Append(waits, [profile |-> live', answer |-> "none"])
    /\ UNCHANGED <<stored, announced, dialog, accepted, isNew, loaded, keys, form, added,
                   dirty, touched>>

\* NetworkManager answers one of the pending calls, in their order.
AddAnswered ==
    /\ \E i \in DOMAIN waits :
          /\ waits[i].answer = "none"
          /\ \A j \in 1..(i - 1) : waits[j].answer # "none"
          /\ \/ /\ waits' = [waits EXCEPT ![i].answer = "added"]
                /\ stored' = waits[i].profile /\ added' = added + 1
             \/ waits' = [waits EXCEPT ![i].answer = "refused"] /\ UNCHANGED <<stored, added>>
    /\ UNCHANGED <<live, announced, dialog, accepted, isNew, loaded, keys, form, saves, dirty,
                   touched>>

\* Mutant: a dialog that has been closed meanwhile stays rejected.
Accepted_IfShown == dialog = "shown"

Accepted == TRUE

\* Mutant: only a call that has added a profile ends the wait.
Answered_IfAdded(w) == w.answer = "added"

Answered(w) == w.answer # "none"

\* The innermost wait ends; accept() hides the dialog even after a reject().  After
\* a refusal it has ended when the user has closed the message box that tells it.
WaitEnds ==
    /\ waits # <<>>
    /\ LET last == waits[Len(waits)]
           outer == SubSeq(waits, 1, Len(waits) - 1)
           closes == last.answer = "added" \/ dialog = "hidden"
       IN /\ Answered(last)
          /\ waits' = outer
          /\ dialog' = CASE closes /\ outer = <<>> -> "closed"
                         [] closes /\ outer # <<>> -> "hidden"
                         [] OTHER -> dialog
          /\ isNew' = (isNew /\ last.answer # "added")
          /\ accepted' = (accepted \/ (last.answer = "added" /\ Accepted))
          /\ live' = IF closes /\ outer = <<>> THEN Known ELSE live
    /\ UNCHANGED <<stored, announced, loaded, keys, form, added, saves, dirty, touched>>

Cancel ==
    /\ dialog = "shown"
    /\ dialog' = IF waits = <<>> THEN "closed" ELSE "hidden"
    /\ live' = IF isNew /\ waits = <<>> THEN Known ELSE live
    /\ UNCHANGED <<stored, announced, accepted, isNew, loaded, keys, form, waits, added,
                   saves, dirty, touched>>

-----------------------------------------------------------------------------
\* Other programs add, change or delete the profile.
Elsewhere ==
    /\ stored' \in Foreign[kind] \cup {Gone}
    /\ announced' = TRUE
    /\ UNCHANGED <<live, dialog, accepted, isNew, loaded, keys, form, waits, added, saves,
                   dirty, touched>>

\* libnm fetches the profile anew and replaces its object's settings.
Fetched ==
    /\ announced
    /\ announced' = FALSE /\ dirty' = (dialog # "closed")
    /\ live' = IF isNew /\ dialog # "closed" THEN live ELSE Known
    /\ UNCHANGED <<stored, dialog, accepted, isNew, loaded, keys, form, waits, added, saves,
                   touched>>

User == New \/ Edit \/ TypeField \/ ChooseSecurity \/ TypeCredentials \/ Cancel
        \/ SaveFails \/ SaveCommits \/ SaveAdds

Next == (User \/ AddAnswered \/ WaitEnds \/ Elsewhere \/ Fetched) /\ UNCHANGED kind

Fairness ==
    WF_vars(AddAnswered /\ UNCHANGED kind) /\ WF_vars(WaitEnds /\ UNCHANGED kind)

Spec == Init /\ [][Next]_vars /\ Fairness

-----------------------------------------------------------------------------
(* Properties.                                                             *)

\* Whatever fails on the way, what NetworkManager stores has the security of one
\* type and nothing left of another, and an IPv4 setting in which a manual method
\* has an address and an automatic one nothing of a manual one.
StoredCoherent ==
    stored # Gone =>
        /\ Coherent(stored.sec)
        /\ IpCoherent(stored.ip)

\* The editor's list learns of every profile the dialog has added, also when
\* the user has closed it during the wait, and of none it has not.
ListKnows == dialog = "closed" => (accepted => added > 0 \/ ~isNew) /\ (added > 0 => accepted)

Commits == stored # Gone /\ stored' # Gone /\ accepted' /\ ~accepted /\ ~isNew /\ dialog = "shown"

\* The password of a profile.
PasswordOf(p) ==
    IF kind = "wifi" THEN IF p.sec.x.present THEN p.sec.x.secret ELSE p.sec.wsec.secret
                     ELSE p.vpn.secrets["password"]
SecretsOf(p) == <<p.sec.wsec.secret, p.sec.x.secret, p.vpn.secrets, p.vpn.privateKey>>

Password(f) == IF kind = "wifi" THEN f.secret ELSE f.vpn.password
Blank(f) == f.secret = "" /\ f.vpn.password = "" /\ f.vpn.psk = "" /\ f.vpn.privateKey = ""

\* The dialog has loaded the profile as NetworkManager has it, and the object is
\* what it has loaded.
Fresh == ~dirty /\ ~announced

\* Provided that no earlier attempt has failed since libnm fetched the profile and
\* that nobody else has changed it: an edit that leaves type and identity alone
\* keeps every secret if their fields are blank and the type is on offer, and a
\* password that is typed is stored where it belongs.
KeptOrReplaced ==
    [][Commits /\ Fresh
       => /\ ~touched /\ loaded \in OnOffer /\ Blank(form)
                => SecretsOf(stored') = SecretsOf(stored)
          /\ Password(form) # "" => PasswordOf(stored') = Password(form)]_vars

Shown(p) == Loaded(Sent(p))

\* Fields that every save of their editor writes, whatever has failed before.  A
\* user that is wiped out comes back if the plugin's data name one as well.
AlwaysShown(p) ==
    /\ kind = "wifi" => Shown(p).mtu = form.mtu
    /\ kind = "wired" => Shown(p).mac = form.mac
    /\ kind \in {"wifi", "wired"} =>
          /\ Shown(p).ip.manual = form.ip.manual
          /\ form.ip.manual => Shown(p).ip.address = form.ip.address
    /\ kind \in PluginKinds /\ form.vpn.user # "" => Shown(p).vpn.user = form.vpn.user
    /\ kind = "wireguard" =>
          /\ Shown(p).vpn.publicKey = form.vpn.publicKey
          /\ Shown(p).vpn.endpoint = form.vpn.endpoint

\* Fields whose way into the profile depends on what the dialog has loaded.  WEP
\* cannot be recognised without its secret and is left out.
FreshlyShown(p) ==
    /\ kind = "wifi" /\ form.type \notin {"WepKey", "WepPassphrase"} =>
          Shown(p).type = form.type /\ Shown(p).identity = form.identity
    /\ kind \in PluginKinds => Shown(p).vpn.server = form.vpn.server

\* What the user saved is what the dialog shows the next time.
SavedIsShown == [][Commits => AlwaysShown(stored') /\ (Fresh => FreshlyShown(stored'))]_vars

\* wificonnectioneditordialog.cpp:363: "Password (leave blank to keep)".
BlankKeeps ==
    [][Commits /\ ~touched /\ form.secret = "" /\ form.type = loaded /\ ~announced
       => stored'.sec = stored.sec]_vars

\* A wait ends once NetworkManager has answered the calls, however they nest.
WaitsEnd == waits # <<>> ~> waits = <<>>
=============================================================================
