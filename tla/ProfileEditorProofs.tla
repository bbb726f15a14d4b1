------------------------- MODULE ProfileEditorProofs -------------------------
(***************************************************************************)
(* For any profiles of other programs, entries, attempts and waits: what    *)
(* the editors store has the settings of one security type and a whole IPv4 *)
(* setting, however many attempts have failed half-way before; a dialog     *)
(* that has closed tells of what it has added; no counter and no stored     *)
(* profile leaves its type; what is saved is shown the next time; and blank *)
(* secret fields keep the secrets.                                          *)
(***************************************************************************)
EXTENDS ProfileEditor, SequenceTheorems, TLAPS

\* The fields a profile has, a form and a wait.
IsProfile(p) ==
    p = [mtu |-> p.mtu, mac |-> p.mac, cloned |-> p.cloned, sec |-> p.sec, ip |-> p.ip,
         vpn |-> p.vpn]
MacShown(p) == IF p.mac = "" THEN p.cloned ELSE p.mac
IsForm(f) ==
    f = [complete |-> f.complete, mtu |-> f.mtu, mac |-> f.mac, type |-> f.type,
         identity |-> f.identity, secret |-> f.secret, ip |-> f.ip, vpn |-> f.vpn]
IsWait(w) == w = [profile |-> w.profile, answer |-> w.answer]

\* A profile under way: its security is sound whatever has failed, its IPv4 setting
\* need not be.
Secure(p) == IsProfile(p) /\ p.sec \in Security /\ Coherent(p.sec)
Sound(p) == Secure(p) /\ IpCoherent(p.ip)

HasIp == kind \in {"wifi", "wired"}

StoredSound == stored # Gone => Sound(stored)
LiveSecure == live # Gone => Secure(live) /\ (~HasIp => IpCoherent(live.ip))
FormTyped(f) ==
    IsForm(f) /\ f.type \in OnOffer /\ f.identity \in Identities /\ f.secret \in Secrets
WaitsSound ==
    /\ \E S : waits \in Seq(S)
    /\ \A i \in 1..Len(waits) : IsWait(waits[i]) /\ Sound(waits[i].profile)

\* The object of a new profile is the dialog's own: nobody deletes it.
NewIsThere == dialog = "shown" /\ isNew => live # Gone

IInv ==
    kind \in Kinds /\ StoredSound /\ LiveSecure /\ FormTyped(form) /\ WaitsSound /\ NewIsThere

-----------------------------------------------------------------------------
(* Wi-Fi security.                                                         *)

LEMMA OpenIsCoherent == Open \in Security /\ Coherent(Open)
BY DEF Open, Security, Coherent, NoWsec, NoX, KeyMgmts, Secrets, Identities

LEMMA OnOfferTypes == OnOffer \subseteq Types /\ "None" \in OnOffer
BY EditorAssumption DEF EditorAssumption

\* What the credentials of a type make.
LEMMA AppliedType ==
  ASSUME NEW type \in Types, NEW identity \in Identities, NEW secret \in Secrets
  PROVE  Applied(Open, type, identity, secret) \in Security
BY DEF Types, Identities, Secrets, Applied, WsecOf, NeedsIdentity, Open, NoWsec, NoX,
       Security, KeyMgmts

\* wifiSecurityApply after wifiSecurityClear leaves one type's settings.
LEMMA AppliedIsCoherent ==
  ASSUME NEW sec, NEW type \in Types, NEW identity \in Identities, NEW secret \in Secrets,
         CredentialsValid(type, identity, secret)
  PROVE  /\ Applied(Clear(sec), type, identity, secret) \in Security
         /\ Coherent(Applied(Clear(sec), type, identity, secret))
<1>1. Clear(sec) = Open
  BY DEF Clear, Open
<1>2. CASE type = "None"
  BY <1>1, <1>2, OpenIsCoherent DEF Applied
<1>3. CASE type # "None"
  <2>1. type \in Types \ {"None"}
    BY <1>3
  <2>2. Coherent(Applied(Open, type, identity, secret))
    <3>1. SameButSecrets(Applied(Open, type, identity, secret),
                         Applied(Open, type, identity, secret))
      BY DEF SameButSecrets
    <3> DEFINE a == Applied(Open, type, identity, secret)
    <3>2. a.x.present \/ a.x = NoX
      BY DEF Applied, Open
    <3> HIDE DEF a
    <3>3. SameButSecrets(a, Applied(Open, type, identity, secret)) => Coherent(a)
      BY <2>1, <3>2 DEF Coherent
    <3> QED BY <3>1, <3>3 DEF a
  <2> QED BY <1>1, <2>2, AppliedType
<1> QED BY <1>2, <1>3

\* Settings that differ in their secrets only are coherent together.
LEMMA SecretsDoNotMatter ==
  ASSUME NEW sec \in Security, NEW other \in Security, Coherent(sec), sec # Open,
         SameButSecrets(other, sec), other.x.present \/ other.x = NoX
  PROVE  Coherent(other)
<1>1. PICK type \in Types \ {"None"}, identity \in Identities, secret \in Secrets :
         /\ CredentialsValid(type, identity, secret)
         /\ SameButSecrets(sec, Applied(Open, type, identity, secret))
  BY DEF Coherent
<1>2. SameButSecrets(other, Applied(Open, type, identity, secret))
  BY <1>1 DEF SameButSecrets
<1> QED BY <1>1, <1>2 DEF Coherent

\* What libnm leaves out does not matter.
LEMMA SentIsCoherent ==
  ASSUME NEW sec \in Security, Coherent(sec)
  PROVE  WithoutSecrets(sec) \in Security /\ Coherent(WithoutSecrets(sec))
<1>1. WithoutSecrets(sec) \in Security /\ SameButSecrets(WithoutSecrets(sec), sec)
  BY DEF WithoutSecrets, Security, Secrets, SameButSecrets
<1> DEFINE n == WithoutSecrets(sec)
<1>4. n.x.present \/ n.x = NoX
  <2>1. CASE sec.x.present
    BY <1>1, <2>1 DEF SameButSecrets
  <2>2. CASE sec.x = NoX
    <3>1. n.x = [NoX EXCEPT !.secret = ""]
      BY <2>2 DEF WithoutSecrets, Security
    <3> QED BY <3>1 DEF NoX
  <2> QED BY <2>1, <2>2 DEF Coherent
<1>2. CASE sec = Open
  <2>1. WithoutSecrets(Open) = Open
    <3>1. Open \in Security
      BY OpenIsCoherent
    <3>2. /\ Open.wsec.secret = "" /\ Open.x.secret = ""
      BY DEF Open, NoWsec, NoX
    <3> HIDE DEF Open
    <3> QED BY <3>1, <3>2 DEF WithoutSecrets, Security
  <2> QED BY <1>2, <2>1, OpenIsCoherent
<1>3. CASE sec # Open
  BY <1>1, <1>3, <1>4, SecretsDoNotMatter
<1> QED BY <1>1, <1>2, <1>3

\* The settings of a type, field by field.
LEMMA AppliedFields ==
  ASSUME NEW type \in Types \ {"None"}, NEW identity, NEW secret
  PROVE  /\ Applied(Open, type, identity, secret).wsec = WsecOf(type, secret)
         /\ NeedsIdentity(type) => /\ Applied(Open, type, identity, secret).x.present
                                   /\ Applied(Open, type, identity, secret).x.identity = identity
         /\ ~NeedsIdentity(type) => ~Applied(Open, type, identity, secret).x.present
         /\ Applied(Open, type, identity, secret).wsec.mgmt # "absent"
<1> DEFINE a == Applied(Open, type, identity, secret)
<1>1. /\ a.wsec = WsecOf(type, secret)
      /\ NeedsIdentity(type) =>
            a.x = [present |-> TRUE, identity |-> identity, secret |-> secret]
      /\ ~NeedsIdentity(type) => a.x = NoX
  BY DEF Applied, Open
<1>2. WsecOf(type, secret).mgmt # "absent"
  BY DEF WsecOf, NoWsec
<1>3. ~NoX.present
  BY DEF NoX
<1> HIDE DEF a
<1>4. ~NeedsIdentity(type) => ~a.x.present
  BY <1>1, <1>3
<1>5. NeedsIdentity(type) => a.x.present /\ a.x.identity = identity
  BY <1>1
<1>6. a.wsec.mgmt # "absent"
  BY <1>1, <1>2
<1> QED BY <1>1, <1>4, <1>5, <1>6 DEF a

\* Another identity in the place of one.
LEMMA IdentityIsCoherent ==
  ASSUME NEW sec \in Security, Coherent(sec), sec.x.present,
         NEW identity \in Identities, identity # ""
  PROVE  /\ [sec EXCEPT !.x.identity = identity] \in Security
         /\ Coherent([sec EXCEPT !.x.identity = identity])
<1> DEFINE n == [sec EXCEPT !.x.identity = identity]
<1>1. /\ n \in Security /\ n.wsec = sec.wsec /\ n.x.present = sec.x.present
      /\ n.x.identity = identity
  BY DEF Security
<1>2. sec # Open
  <2>1. ~Open.x.present
    BY DEF Open, NoX
  <2> QED BY <2>1
<1>3. PICK type \in Types \ {"None"}, old \in Identities, secret \in Secrets :
         /\ CredentialsValid(type, old, secret)
         /\ SameButSecrets(sec, Applied(Open, type, old, secret))
  BY <1>2 DEF Coherent
<1> DEFINE a == Applied(Open, type, old, secret)
           b == Applied(Open, type, identity, secret)
<1>4. NeedsIdentity(type)
  <2>1. ~NeedsIdentity(type) => ~a.x.present
    BY AppliedFields
  <2>2. sec.x.present = a.x.present
    BY <1>3 DEF SameButSecrets
  <2> HIDE DEF a
  <2> QED BY <2>1, <2>2
<1>5. CredentialsValid(type, identity, secret)
  BY <1>3, <1>4 DEF CredentialsValid, NeedsIdentity
<1>6. a \in Security /\ b \in Security
  BY AppliedType
<1>7. a.wsec = b.wsec /\ a.x.present /\ b.x.present /\ b.x.identity = identity
  <2>1. a.wsec = b.wsec
    <3>1. a.wsec = WsecOf(type, secret)
      BY DEF Applied
    <3>2. b.wsec = WsecOf(type, secret)
      BY DEF Applied
    <3> HIDE DEF a, b
    <3> QED BY <3>1, <3>2
  <2>2. NeedsIdentity(type) => a.x.present
    BY AppliedFields
  <2>3. NeedsIdentity(type) => b.x.present
    BY AppliedFields
  <2>4. NeedsIdentity(type) => b.x.identity = identity
    BY DEF Applied
  <2> HIDE DEF a, b
  <2> QED BY <1>4, <2>1, <2>2, <2>3, <2>4
<1> HIDE DEF n, a, b
<1>8. a.x.present = b.x.present
  <2>1. a.x.present \in BOOLEAN /\ b.x.present \in BOOLEAN
    BY <1>6 DEF Security
  <2> QED BY <1>7, <2>1
<1>9. SameButSecrets(n, b)
  BY <1>1, <1>3, <1>7, <1>8 DEF SameButSecrets, a
<1>10. Coherent(n)
  BY <1>1, <1>3, <1>5, <1>9 DEF Coherent, b
<1> QED BY <1>1, <1>10 DEF n

\* NetworkManager puts back the secrets of the old profile, if any.
LEMMA UpdatedIsCoherent ==
  ASSUME NEW old \in Security, NEW new \in Security, Coherent(old), Coherent(new)
  PROVE  Updated(old, new) \in Security /\ Coherent(Updated(old, new))
<1>1. CASE HasSecrets(new)
  BY <1>1 DEF Updated
<1>2. CASE ~HasSecrets(new)
  <2> DEFINE n == Updated(old, new)
  <2>1. /\ n \in Security /\ n.wsec.mgmt = new.wsec.mgmt /\ n.wsec.leap = new.wsec.leap
        /\ n.wsec.wepType = new.wsec.wepType /\ n.x.present = new.x.present
        /\ n.x.identity = new.x.identity
        /\ n.wsec.secret = IF new.wsec.mgmt = old.wsec.mgmt THEN old.wsec.secret ELSE ""
        /\ n.x.secret = IF new.x.present THEN old.x.secret ELSE ""
    BY <1>2 DEF Updated, Security, Secrets
  <2> HIDE DEF n
  <2>2. CASE new # Open
    <3>1. SameButSecrets(n, new)
      BY <2>1 DEF SameButSecrets
    <3>2. n.x.present \/ n.x = NoX
      <4>1. CASE new.x.present
        BY <2>1, <4>1
      <4>2. CASE ~new.x.present
        <5>1. new.x = NoX
          BY <4>2 DEF Coherent
        <5>2. n.x = [present |-> n.x.present, identity |-> n.x.identity, secret |-> n.x.secret]
          BY <2>1 DEF Security
        <5>3. new.x.present = FALSE /\ new.x.identity = ""
          <6>1. NoX.present = FALSE /\ NoX.identity = ""
            BY DEF NoX
          <6> QED BY <5>1, <6>1
        <5>4. n.x.present = FALSE /\ n.x.identity = "" /\ n.x.secret = ""
          BY <2>1, <4>2, <5>3
        <5>5. n.x = [present |-> FALSE, identity |-> "", secret |-> ""]
          BY <5>2, <5>4
        <5> QED BY <5>5 DEF NoX
      <4> QED BY <4>1, <4>2
    <3> QED BY <2>1, <2>2, <3>1, <3>2, SecretsDoNotMatter DEF n
  <2>3. CASE new = Open
    <3>1. CASE old = Open
      <4>1. n.wsec = NoWsec /\ n.x = NoX
        BY <2>1, <2>3, <3>1 DEF Open, NoWsec, NoX, Security
      <4>2. n = Open
        BY <2>1, <4>1 DEF Open, Security
      <4> QED BY <4>2, OpenIsCoherent DEF n
    <3>2. CASE old # Open
      <4>1. old.wsec.mgmt # "absent"
        <5>1. PICK type \in Types \ {"None"}, identity \in Identities, secret \in Secrets :
                 SameButSecrets(old, Applied(Open, type, identity, secret))
          BY <3>2 DEF Coherent
        <5>2. Applied(Open, type, identity, secret).wsec.mgmt # "absent"
          BY AppliedFields
        <5> QED BY <5>1, <5>2 DEF SameButSecrets
      <4>2. n.wsec = NoWsec /\ n.x = NoX
        BY <2>1, <2>3, <4>1 DEF Open, NoWsec, NoX, Security
      <4>3. n = Open
        BY <2>1, <4>2 DEF Open, Security
      <4> QED BY <4>3, OpenIsCoherent DEF n
    <3> QED BY <3>1, <3>2
  <2> QED BY <2>2, <2>3
<1> QED BY <1>1, <1>2

-----------------------------------------------------------------------------
(* Profiles under way.                                                     *)

\* Writing one field leaves the others.
LEMMA SecWritten ==
  ASSUME NEW p, Secure(p), NEW v \in Security, Coherent(v), NEW q, q = [p EXCEPT !.sec = v]
  PROVE  Secure(q) /\ q.ip = p.ip
BY DEF Secure, IsProfile

LEMMA IpWritten ==
  ASSUME NEW p, Secure(p), NEW v, NEW q, q = [p EXCEPT !.ip = v]
  PROVE  Secure(q) /\ q.ip = v
BY DEF Secure, IsProfile

LEMMA FieldWritten ==
  ASSUME NEW p, Secure(p), NEW v, NEW q, q = [p EXCEPT !.mtu = v] \/ q = [p EXCEPT !.vpn = v]
  PROVE  Secure(q) /\ q.ip = p.ip
<1>1. CASE q = [p EXCEPT !.mtu = v]
  BY <1>1 DEF Secure, IsProfile
<1>2. CASE q = [p EXCEPT !.vpn = v]
  BY <1>2 DEF Secure, IsProfile
<1> QED BY <1>1, <1>2

LEMMA MacWritten ==
  ASSUME NEW p, Secure(p), NEW v
  PROVE  Secure([p EXCEPT !.mac = v, !.cloned = ""])
<1> DEFINE r == [p EXCEPT !.mac = v]
           q == [p EXCEPT !.mac = v, !.cloned = ""]
<1>1. r.sec = p.sec /\ IsProfile(r)
  BY DEF Secure, IsProfile
<1>2. q = [r EXCEPT !.cloned = ""]
  OBVIOUS
<1> HIDE DEF q, r
<1>3. q.sec = r.sec /\ IsProfile(q)
  BY <1>1, <1>2 DEF IsProfile
<1>4. Secure(q)
  BY <1>1, <1>3 DEF Secure
<1> QED BY <1>4 DEF q

LEMMA SecureIsThere == ASSUME NEW p, Secure(p) PROVE p # Gone
BY DEF Secure, IsProfile, Gone

\* Sent by libnm, the profile has the same settings.
LEMMA SentIsSecure ==
  ASSUME NEW p, Secure(p), p # Gone
  PROVE  Secure(Sent(p)) /\ Sent(p).ip = p.ip
<1>1. WithoutSecrets(p.sec) \in Security /\ Coherent(WithoutSecrets(p.sec))
  BY SentIsCoherent DEF Secure
<1>2. Sent(p) = [p EXCEPT !.sec = WithoutSecrets(p.sec), !.vpn = VpnWithoutSecrets(p.vpn)]
  BY DEF Sent
<1> QED BY <1>1, <1>2 DEF Secure, IsProfile

\* What failed or succeeded in the security fields has left one type's settings.
LEMMA SaveSecurityIsSecure ==
  ASSUME NEW p, Secure(p), NEW f, FormTyped(f)
  PROVE  /\ Secure(SaveSecurity(p, f).profile)
         /\ SaveSecurity(p, f).profile.ip = p.ip
<1>1. f.type \in Types /\ f.identity \in Identities /\ f.secret \in Secrets
  BY OnOfferTypes DEF FormTyped
<1>2. p.sec \in Security /\ Coherent(p.sec)
  BY DEF Secure
<1>3. CASE Rewrites(f) /\ CredentialsValid(f.type, f.identity, f.secret)
  <2> DEFINE a == Applied(Clear(p.sec), f.type, f.identity, f.secret)
  <2>1. a \in Security /\ Coherent(a)
    BY <1>1, <1>3, AppliedIsCoherent
  <2>2. SaveSecurity(p, f).profile = [p EXCEPT !.sec = a]
    BY <1>3 DEF SaveSecurity
  <2> HIDE DEF a
  <2> QED BY <2>1, <2>2, SecWritten
<1>4. CASE Rewrites(f) /\ ~CredentialsValid(f.type, f.identity, f.secret)
  <2>1. SaveSecurity(p, f).profile = [p EXCEPT !.sec = Open]
    BY <1>4 DEF SaveSecurity, Clear, Open
  <2> QED BY <2>1, SecWritten, OpenIsCoherent
<1>5. CASE ~Rewrites(f)
  <2>1. CASE NeedsIdentity(f.type) /\ f.identity # "" /\ p.sec.x.present
    <3> DEFINE n == [p.sec EXCEPT !.x.identity = f.identity]
    <3>1. n \in Security /\ Coherent(n)
      BY <1>1, <1>2, <2>1, IdentityIsCoherent
    <3>2. SaveSecurity(p, f).profile = [p EXCEPT !.sec.x.identity = f.identity]
      BY <1>5, <2>1 DEF SaveSecurity
    <3>3. [p EXCEPT !.sec.x.identity = f.identity] = [p EXCEPT !.sec = n]
      OBVIOUS
    <3>4. SaveSecurity(p, f).profile = [p EXCEPT !.sec = n]
      BY <3>2, <3>3
    <3> HIDE DEF n
    <3> QED BY <3>1, <3>4, SecWritten
  <2>2. CASE ~(NeedsIdentity(f.type) /\ f.identity # "" /\ p.sec.x.present)
    <3>1. SaveSecurity(p, f).profile = p
      BY <1>5, <2>2 DEF SaveSecurity
    <3> QED BY <3>1
  <2> QED BY <2>1, <2>2
<1> QED BY <1>3, <1>4, <1>5

\* An IPv4 setting that is accepted is whole, whatever was there before.
LEMMA IpAppliedIsCoherent ==
  ASSUME NEW s, NEW f, IpApply(s, f).ok
  PROVE  IpCoherent(IpApply(s, f).ip)
<1>1. CASE ~f.manual
  <2>1. IpApply(s, f).ip = Automatic
    BY <1>1 DEF IpApply, IpAutomatic
  <2>2. IpCoherent(Automatic)
    BY DEF Automatic, IpCoherent
  <2> QED BY <2>1, <2>2
<1>2. CASE f.manual /\ IpRefusedEarly(f)
  BY <1>2 DEF IpApply
<1>3. CASE f.manual /\ ~IpRefusedEarly(f) /\ f.address = "bad"
  BY <1>3 DEF IpApply
<1>4. CASE f.manual /\ ~IpRefusedEarly(f) /\ f.address # "bad"
  <2> DEFINE prefix == IF NetmaskValid(f.netmask) THEN PrefixOf(f.netmask) ELSE DefaultPrefix
             addresses == Addressed(s, [ip |-> f.address, prefix |-> prefix])
  <2>1. IpApply(s, f).ip = [method |-> "manual", addresses |-> addresses,
                            gateway |-> f.gateway, dns |-> f.dns]
    BY <1>4 DEF IpApply
  <2>2. addresses # <<>>
    BY DEF Addressed
  <2> HIDE DEF addresses
  <2> QED BY <2>1, <2>2 DEF IpCoherent
<1> QED BY <1>1, <1>2, <1>3, <1>4

\* saveProfile, of each of the editors.
LEMMA SavedIsSecure ==
  ASSUME NEW p, Secure(p), NEW f, FormTyped(f)
  PROVE  /\ Secure(Saved(p, f).profile)
         /\ HasIp /\ Saved(p, f).ok => IpCoherent(Saved(p, f).profile.ip)
         /\ ~HasIp => Saved(p, f).profile.ip = p.ip
<1>1. ASSUME NEW q, Secure(q)
      PROVE  /\ Secure(SaveIp(q, f).profile)
             /\ SaveIp(q, f).ok => IpCoherent(SaveIp(q, f).profile.ip)
  <2> DEFINE result == IpApply(q.ip, f.ip)
  <2>1. SaveIp(q, f).profile = [q EXCEPT !.ip = result.ip] /\ SaveIp(q, f).ok = result.ok
    BY DEF SaveIp
  <2>2. result.ok => IpCoherent(result.ip)
    BY IpAppliedIsCoherent
  <2> HIDE DEF result
  <2>3. Secure(SaveIp(q, f).profile) /\ SaveIp(q, f).profile.ip = result.ip
    BY <1>1, <2>1, IpWritten
  <2> QED BY <2>1, <2>2, <2>3
<1>2. CASE ~f.complete
  <2>1. Saved(p, f) = [ok |-> FALSE, profile |-> p]
    BY <1>2 DEF Saved
  <2> QED BY <2>1
<1>3. CASE f.complete /\ kind = "wifi"
  <2>1. Saved(p, f) = SaveWifi(p, f)
    BY <1>3 DEF Saved
  <2> DEFINE mtu == SaveMtu(p, f)
             sec == IF mtu.ok THEN SaveSecurity(mtu.profile, f) ELSE mtu
  <2>2. Secure(mtu.profile)
    BY FieldWritten DEF SaveMtu
  <2>3. Secure(sec.profile)
    BY <2>2, SaveSecurityIsSecure
  <2>4. SaveWifi(p, f) = IF sec.ok THEN SaveIp(sec.profile, f) ELSE sec
    BY DEF SaveWifi
  <2> HIDE DEF mtu, sec
  <2> QED BY <1>1, <1>3, <2>1, <2>3, <2>4 DEF HasIp
<1>4. CASE f.complete /\ kind = "wired"
  <2>1. Saved(p, f) = SaveIp([p EXCEPT !.mac = f.mac, !.cloned = ""], f)
    BY <1>4 DEF Saved, SaveWired
  <2>2. Secure([p EXCEPT !.mac = f.mac, !.cloned = ""])
    BY MacWritten
  <2> QED BY <1>1, <1>4, <2>1, <2>2 DEF HasIp
<1>5. CASE f.complete /\ kind \notin {"wifi", "wired"}
  <2>1. Saved(p, f) = SaveVpn(p, f)
    BY <1>5 DEF Saved
  <2> DEFINE result == VpnSave(kind, Sealed, keys, isNew, p.vpn, f.vpn)
  <2>2. SaveVpn(p, f).profile = [p EXCEPT !.vpn = result.vpn]
    BY DEF SaveVpn
  <2> HIDE DEF result
  <2>3. Secure(Saved(p, f).profile) /\ Saved(p, f).profile.ip = p.ip
    BY <2>1, <2>2, FieldWritten
  <2> QED BY <1>5, <2>3 DEF HasIp
<1> QED BY <1>2, <1>3, <1>4, <1>5

\* What the dialogs start from.
LEMMA TemplateIsSound == Sound(Template) /\ Template # Gone
<1>1. Template.sec = Open /\ Template.ip = Automatic /\ IsProfile(Template)
  BY DEF Template, IsProfile
<1>2. IpCoherent(Automatic)
  BY DEF Automatic, IpCoherent
<1>3. Template # Gone
  BY DEF Template, Gone
<1> QED BY <1>1, <1>2, <1>3, OpenIsCoherent DEF Sound, Secure

LEMMA ForeignIsSound ==
  ASSUME NEW k \in Kinds, NEW p \in Foreign[k]
  PROVE  Sound(p) /\ p # Gone
<1>1. p \in Profile /\ Coherent(p.sec) /\ IpCoherent(p.ip)
  BY ForeignAssumption
<1>2. IsProfile(p) /\ p.sec \in Security
  BY <1>1 DEF Profile, IsProfile
<1>3. p # Gone
  BY <1>1 DEF Profile, Gone
<1> QED BY <1>1, <1>2, <1>3 DEF Sound, Secure

LEMMA ForTypeTyped ==
  ASSUME NEW f, IsForm(f), f.identity \in Identities, f.secret \in Secrets,
         NEW type \in OnOffer
  PROVE  FormTyped(ForType(f, type))
<1> DEFINE i == IF NeedsIdentity(type) THEN f.identity ELSE ""
           c == IF NeedsSecret(type) THEN f.secret ELSE ""
<1>1. i \in Identities /\ c \in Secrets
  BY DEF Identities, Secrets
<1>2. ForType(f, type) = [f EXCEPT !.type = type, !.identity = i, !.secret = c]
  BY DEF ForType
<1> HIDE DEF i, c
<1> QED BY <1>1, <1>2 DEF FormTyped, IsForm

LEMMA LoadedTyped ==
  ASSUME NEW p, Secure(p)
  PROVE  FormTyped(Loaded(p))
<1> DEFINE type == Detected(p.sec)
           shown == IF type \in OnOffer THEN type ELSE "None"
           f == [complete |-> TRUE, mtu |-> p.mtu, mac |-> MacShown(p), type |-> "None",
                 identity |-> p.sec.x.identity, secret |-> "", ip |-> IpLoad(p.ip),
                 vpn |-> VpnLoad(kind, p.vpn)]
<1>1. shown \in OnOffer
  BY OnOfferTypes
<1>2. IsForm(f) /\ f.identity \in Identities /\ f.secret \in Secrets
  BY DEF IsForm, Secure, Security, Secrets
<1>3. Loaded(p) = ForType(f, shown)
  BY DEF Loaded, MacShown
<1> HIDE DEF f, shown
<1> QED BY <1>1, <1>2, <1>3, ForTypeTyped

-----------------------------------------------------------------------------
(* The actions.                                                            *)

\* libnm's object follows NetworkManager.
LEMMA KnownIsSecure ==
  ASSUME StoredSound
  PROVE  Known # Gone => Secure(Known) /\ IpCoherent(Known.ip)
<1>1. CASE stored = Gone
  BY <1>1 DEF Known, Sent
<1>2. CASE stored # Gone
  BY <1>2, SentIsSecure DEF Known, StoredSound, Sound
<1> QED BY <1>1, <1>2

LEMMA InitEstablishes == Init => IInv
<1> SUFFICES ASSUME Init PROVE IInv
  OBVIOUS
<1>1. kind \in Kinds /\ StoredSound
  BY ForeignIsSound DEF Init, StoredSound
<1>2. LiveSecure
  BY <1>1, KnownIsSecure DEF Init, LiveSecure
<1>3. FormTyped(form)
  BY LoadedTyped, TemplateIsSound DEF Init, Sound
<1>4. WaitsSound
  <2>1. waits \in Seq({}) /\ Len(waits) = 0
    BY EmptySeq DEF Init
  <2>2. 1..0 = {}
    OBVIOUS
  <2> QED BY <2>1, <2>2 DEF WaitsSound
<1>5. NewIsThere
  BY DEF Init, NewIsThere
<1> QED BY <1>1, <1>2, <1>3, <1>4, <1>5 DEF IInv

\* A dialog opens.
LEMMA StartKeeps ==
  ASSUME IInv, UNCHANGED kind, New \/ Edit
  PROVE  IInv'
<1>1. PICK p : \E new \in BOOLEAN : Start(p, new) /\ Secure(p) /\ (~HasIp => IpCoherent(p.ip))
  <2>1. CASE New
    BY <2>1, TemplateIsSound DEF New, Sound
  <2>2. CASE Edit
    BY <2>2 DEF Edit, IInv, LiveSecure
  <2> QED BY <2>1, <2>2
<1>2. live' = p /\ form' = Loaded(p) /\ UNCHANGED <<stored, waits>>
  BY <1>1 DEF Start
<1>3. LiveSecure'
  BY <1>1, <1>2 DEF LiveSecure, HasIp
<1>4. FormTyped(form')
  BY <1>1, <1>2, LoadedTyped
<1>5. NewIsThere'
  BY <1>1, <1>2, SecureIsThere DEF NewIsThere
<1> QED BY <1>2, <1>3, <1>4, <1>5 DEF IInv, StoredSound, WaitsSound

\* The user types.
LEMMA FormsKeep ==
  ASSUME IInv, UNCHANGED kind, TypeField \/ ChooseSecurity \/ TypeCredentials
  PROVE  IInv'
<1>1. UNCHANGED <<stored, live, waits, dialog, isNew>>
  BY DEF TypeField, ChooseSecurity, TypeCredentials, Enter
<1>2. FormTyped(form)
  BY DEF IInv
<1>3. FormTyped(form')
  <2>1. CASE TypeField
    <3>1. \/ form' = [form EXCEPT !.complete = ~@]
          \/ \E v : form' = [form EXCEPT !.mtu = v]
          \/ \E v : form' = [form EXCEPT !.mac = v]
          \/ \E v : form' = [form EXCEPT !.ip = v]
          \/ \E v : form' = [form EXCEPT !.vpn = v]
      BY <2>1 DEF TypeField, Enter
    <3>2. CASE form' = [form EXCEPT !.complete = ~@]
      BY <1>2, <3>2 DEF FormTyped, IsForm
    <3>3. CASE \E v : form' = [form EXCEPT !.mtu = v]
      BY <1>2, <3>3 DEF FormTyped, IsForm
    <3>4. CASE \E v : form' = [form EXCEPT !.mac = v]
      BY <1>2, <3>4 DEF FormTyped, IsForm
    <3>5. CASE \E v : form' = [form EXCEPT !.ip = v]
      BY <1>2, <3>5 DEF FormTyped, IsForm
    <3>6. CASE \E v : form' = [form EXCEPT !.vpn = v]
      BY <1>2, <3>6 DEF FormTyped, IsForm
    <3> QED BY <3>1, <3>2, <3>3, <3>4, <3>5, <3>6
  <2>2. CASE ChooseSecurity
    <3>1. PICK type \in OnOffer : form' = ForType(form, type)
      BY <2>2 DEF ChooseSecurity, Enter
    <3> QED BY <1>2, <3>1, ForTypeTyped DEF FormTyped
  <2>3. CASE TypeCredentials
    <3>1. PICK c \in SecForms :
             form' = ForType([form EXCEPT !.identity = c[1], !.secret = c[2]], form.type)
      BY <2>3 DEF TypeCredentials, Enter
    <3>2. c[1] \in Identities /\ c[2] \in Secrets
      BY EditorAssumption DEF EditorAssumption
    <3> DEFINE F(i, s) == [form EXCEPT !.identity = i, !.secret = s]
               f == F(c[1], c[2])
    <3>3. IsForm(f) /\ f.identity \in Identities /\ f.secret \in Secrets
      <4>1. \A i \in Identities, s \in Secrets :
               IsForm(F(i, s)) /\ F(i, s).identity = i /\ F(i, s).secret = s
        <5> TAKE i \in Identities, s \in Secrets
        <5>1. F(i, s).identity = i /\ F(i, s).secret = s
          BY <1>2 DEF FormTyped, IsForm
        <5> DEFINE g == [form EXCEPT !.identity = i]
        <5>2. IsForm(g)
          BY <1>2 DEF FormTyped, IsForm
        <5>3. F(i, s) = [g EXCEPT !.secret = s]
          OBVIOUS
        <5> HIDE DEF F, g
        <5>4. IsForm(F(i, s))
          BY <5>2, <5>3 DEF IsForm
        <5> QED BY <5>1, <5>4
      <4> HIDE DEF F
      <4> QED BY <3>2, <4>1
    <3>4. form' = ForType(f, form.type) /\ form.type \in OnOffer
      BY <1>2, <3>1 DEF FormTyped
    <3> HIDE DEF f
    <3> QED BY <3>3, <3>4, ForTypeTyped
  <2> QED BY <2>1, <2>2, <2>3
<1> QED BY <1>1, <1>3 DEF IInv, StoredSound, LiveSecure, WaitsSound, HasIp, NewIsThere

\* An attempt is refused: what it has written stays in libnm's object.
LEMMA SaveFailsKeeps ==
  ASSUME IInv, UNCHANGED kind, SaveFails
  PROVE  IInv'
<1>1. UNCHANGED <<stored, form, waits, dialog, isNew>>
  BY DEF SaveFails
<1>2. LiveSecure' /\ (live' = live \/ live' # Gone)
  <2>1. CASE UNCHANGED live
    BY <2>1 DEF IInv, LiveSecure, HasIp
  <2>2. CASE live # Gone /\ live' = Saved(live, form).profile
    <3>1. Secure(live) /\ (~HasIp => IpCoherent(live.ip)) /\ FormTyped(form)
      BY <2>2 DEF IInv, LiveSecure
    <3>2. Secure(live') /\ (~HasIp => live'.ip = live.ip)
      BY <2>2, <3>1, SavedIsSecure
    <3> QED BY <3>1, <3>2, SecureIsThere DEF LiveSecure, HasIp
  <2> QED BY <2>1, <2>2 DEF SaveFails
<1> QED BY <1>1, <1>2 DEF IInv, StoredSound, WaitsSound, NewIsThere

\* What a save that succeeds leaves in the object is sound.
LEMMA SaveSucceeds ==
  ASSUME IInv, UNCHANGED kind, live # Gone, Saved(live, form).ok,
         live' = Saved(live, form).profile
  PROVE  Sound(live') /\ LiveSecure' /\ live' # Gone
<1>1. Secure(live) /\ (~HasIp => IpCoherent(live.ip)) /\ FormTyped(form)
  BY DEF IInv, LiveSecure
<1>2. /\ Secure(live')
      /\ HasIp => IpCoherent(live'.ip)
      /\ ~HasIp => live'.ip = live.ip
  BY <1>1, SavedIsSecure
<1>3. IpCoherent(live'.ip)
  BY <1>1, <1>2
<1> QED BY <1>2, <1>3, SecureIsThere DEF Sound, LiveSecure

\* NetworkManager takes an update, and puts old secrets back.
LEMMA MergedIsSound ==
  ASSUME NEW old, NEW new, Sound(old), Sound(new)
  PROVE  Sound(Merged(old, new))
<1>1. Updated(old.sec, new.sec) \in Security /\ Coherent(Updated(old.sec, new.sec))
  BY UpdatedIsCoherent DEF Sound, Secure
<1> DEFINE u == Updated(old.sec, new.sec)
           v == VpnUpdated(old.vpn, new.vpn)
<1>2. Merged(old, new) = [new EXCEPT !.sec = u, !.vpn = v]
  BY DEF Merged
<1>3. u \in Security /\ Coherent(u)
  BY <1>1
<1> HIDE DEF u, v
<1>4. Secure(new) /\ IpCoherent(new.ip)
  BY DEF Sound
<1>5. Secure(Merged(old, new)) /\ Merged(old, new).ip = new.ip
  BY <1>2, <1>3, <1>4 DEF Secure, IsProfile
<1> QED BY <1>4, <1>5 DEF Sound

LEMMA SaveCommitsKeeps ==
  ASSUME IInv, UNCHANGED kind, SaveCommits
  PROVE  IInv'
<1>1. Sound(live') /\ LiveSecure' /\ live' # Gone
  BY SaveSucceeds DEF SaveCommits
<1>2. UNCHANGED <<isNew, form, waits>> /\ ~isNew
  BY DEF SaveCommits
<1>3. StoredSound'
  <2>1. CASE UNCHANGED stored
    BY <2>1 DEF IInv, StoredSound
  <2>2. CASE stored # Gone /\ stored' = Merged(stored, live')
    <3>1. Sound(stored)
      BY <2>2 DEF IInv, StoredSound
    <3> QED BY <1>1, <2>2, <3>1, MergedIsSound DEF StoredSound
  <2> QED BY <2>1, <2>2 DEF SaveCommits
<1> QED BY <1>1, <1>2, <1>3 DEF IInv, WaitsSound, NewIsThere

LEMMA SaveAddsKeeps ==
  ASSUME IInv, UNCHANGED kind, SaveAdds
  PROVE  IInv'
<1>1. live # Gone
  BY DEF SaveAdds, Click, IInv, NewIsThere
<1>2. Sound(live') /\ LiveSecure' /\ live' # Gone
  BY <1>1, SaveSucceeds DEF SaveAdds
<1> DEFINE w == [profile |-> live', answer |-> "none"]
<1>3. UNCHANGED <<stored, form, isNew, dialog>> /\ waits' = Append(waits, w)
  BY DEF SaveAdds
<1>4. IsWait(w) /\ Sound(w.profile)
  BY <1>2 DEF IsWait
<1> HIDE DEF w
<1>5. WaitsSound'
  <2>1. PICK S : waits \in Seq(S)
    BY DEF IInv, WaitsSound
  <2>2. waits \in Seq(S \cup {w}) /\ w \in S \cup {w}
    BY <2>1
  <2>3. /\ waits' \in Seq(S \cup {w}) /\ Len(waits') = Len(waits) + 1
        /\ \A i \in 1..Len(waits) : waits'[i] = waits[i]
        /\ waits'[Len(waits) + 1] = w
    BY <1>3, <2>2, AppendProperties
  <2>4. Len(waits) \in Nat
    BY <2>1, LenProperties
  <2>5. \A i \in 1..Len(waits') : i \in 1..Len(waits) \/ i = Len(waits) + 1
    BY <2>3, <2>4
  <2> QED BY <1>4, <2>3, <2>5 DEF IInv, WaitsSound
<1> QED BY <1>2, <1>3, <1>5 DEF IInv, StoredSound, NewIsThere

\* An answered wait: what it had asked for is stored.
LEMMA AddAnsweredKeeps ==
  ASSUME IInv, UNCHANGED kind, AddAnswered
  PROVE  IInv'
<1>1. PICK i \in DOMAIN waits, a \in {"added", "refused"} :
         /\ waits' = [waits EXCEPT ![i].answer = a]
         /\ stored' = waits[i].profile \/ UNCHANGED stored
  BY DEF AddAnswered
<1>2. UNCHANGED <<live, form, isNew, dialog>>
  BY DEF AddAnswered
<1>3. PICK S : waits \in Seq(S)
  BY DEF IInv, WaitsSound
<1>4. i \in 1..Len(waits) /\ Len(waits) \in Nat /\ DOMAIN waits = 1..Len(waits)
  BY <1>1, <1>3, LenProperties
<1>5. IsWait(waits[i]) /\ Sound(waits[i].profile)
  BY <1>4 DEF IInv, WaitsSound
<1>6. StoredSound'
  BY <1>1, <1>5 DEF IInv, StoredSound
<1> DEFINE w == [waits[i] EXCEPT !.answer = a]
<1>7. IsWait(w) /\ Sound(w.profile)
  BY <1>5 DEF IsWait
<1>8. waits' = [waits EXCEPT ![i] = w]
  BY <1>1
<1> HIDE DEF w
<1>9. waits' \in Seq(S \cup {w})
  <2>1. waits \in Seq(S \cup {w})
    BY <1>3
  <2> QED BY <1>4, <1>8, <2>1, ExceptSeq
<1>10. /\ Len(waits') = Len(waits)
       /\ \A j \in 1..Len(waits) : waits'[j] = IF j = i THEN w ELSE waits[j]
  BY <1>3, <1>4, <1>8, ExceptSeq
<1>11. WaitsSound'
  <2>1. \A j \in 1..Len(waits') : IsWait(waits'[j]) /\ Sound(waits'[j].profile)
    BY <1>7, <1>10 DEF IInv, WaitsSound
  <2> QED BY <1>9, <2>1 DEF WaitsSound
<1> QED BY <1>2, <1>6, <1>11 DEF IInv, LiveSecure, HasIp, NewIsThere

LEMMA WaitEndsKeeps ==
  ASSUME IInv, UNCHANGED kind, WaitEnds
  PROVE  IInv'
<1>1. /\ UNCHANGED <<stored, form>>
      /\ waits' = SubSeq(waits, 1, Len(waits) - 1)
      /\ \/ live' = Known /\ dialog' = "closed"
         \/ UNCHANGED live
      /\ dialog' = "shown" => dialog = "shown"
      /\ isNew' => isNew
  BY DEF WaitEnds
<1>2. LiveSecure'
  <2>1. CASE UNCHANGED live
    BY <2>1 DEF IInv, LiveSecure, HasIp
  <2>2. CASE live' = Known
    BY <2>2, KnownIsSecure DEF IInv, LiveSecure, HasIp
  <2> QED BY <1>1, <2>1, <2>2
<1>3. NewIsThere'
  BY <1>1 DEF IInv, NewIsThere
<1>4. WaitsSound'
  <2>1. PICK S : waits \in Seq(S)
    BY DEF IInv, WaitsSound
  <2>2. Len(waits) \in Nat /\ Len(waits) # 0
    BY <2>1, EmptySeq, LenProperties DEF WaitEnds
  <2>3. Len(waits) - 1 \in Int /\ 1 \in Int
    BY <2>2
  <2>4. \A i \in 1..(Len(waits) - 1) : waits[i] \in S
    BY <2>1, <2>2, ElementOfSeq
  <2>5. /\ SubSeq(waits, 1, Len(waits) - 1) \in Seq(S)
        /\ Len(SubSeq(waits, 1, Len(waits) - 1))
              = IF 1 <= Len(waits) - 1 THEN Len(waits) - 1 - 1 + 1 ELSE 0
        /\ \A i \in 1..(Len(waits) - 1 - 1 + 1) :
              SubSeq(waits, 1, Len(waits) - 1)[i] = waits[1 + i - 1]
    BY <2>3, <2>4, SubSeqProperties
  <2> DEFINE s == SubSeq(waits, 1, Len(waits) - 1)
  <2>6. s \in Seq(S)
    BY <2>5
  <2>7. Len(s) = IF 1 <= Len(waits) - 1 THEN Len(waits) - 1 - 1 + 1 ELSE 0
    BY <2>5
  <2>8. \A i \in 1..(Len(waits) - 1) : s[i] = waits[i]
    BY <2>2, <2>5
  <2>9. waits' = s
    BY <1>1
  <2> HIDE DEF s
  <2>10. \A i \in 1..Len(s) : i \in 1..Len(waits) /\ s[i] = waits[i]
    <3>1. \A k \in Nat : k # 0 => (IF 1 <= k - 1 THEN k - 1 - 1 + 1 ELSE 0) = k - 1
      OBVIOUS
    <3> QED BY <2>2, <2>7, <2>8, <3>1
  <2> QED BY <2>6, <2>9, <2>10 DEF IInv, WaitsSound
<1> QED BY <1>1, <1>2, <1>3, <1>4 DEF IInv, StoredSound

LEMMA OthersKeep ==
  ASSUME IInv, UNCHANGED kind, Cancel \/ Elsewhere \/ Fetched
  PROVE  IInv'
<1>1. UNCHANGED <<form, waits>>
  BY DEF Cancel, Elsewhere, Fetched
<1>2. CASE Cancel
  <2>1. UNCHANGED <<stored, isNew>> /\ dialog' # "shown" /\ (live' = Known \/ UNCHANGED live)
    BY <1>2 DEF Cancel
  <2>2. LiveSecure'
    BY <2>1, KnownIsSecure DEF IInv, LiveSecure, HasIp
  <2> QED BY <1>1, <2>1, <2>2 DEF IInv, StoredSound, WaitsSound, NewIsThere
<1>3. CASE Elsewhere
  <2>1. UNCHANGED <<live, isNew, dialog>> /\ stored' \in Foreign[kind] \cup {Gone}
    BY <1>3 DEF Elsewhere
  <2>2. StoredSound'
    BY <2>1, ForeignIsSound DEF IInv, StoredSound
  <2> QED BY <1>1, <2>1, <2>2 DEF IInv, LiveSecure, HasIp, WaitsSound, NewIsThere
<1>4. CASE Fetched
  <2>1. /\ UNCHANGED <<stored, isNew, dialog>>
        /\ live' = Known \/ UNCHANGED live
        /\ isNew /\ dialog # "closed" => UNCHANGED live
    BY <1>4 DEF Fetched
  <2>2. LiveSecure'
    BY <2>1, KnownIsSecure DEF IInv, LiveSecure, HasIp
  <2> QED BY <1>1, <2>1, <2>2 DEF IInv, StoredSound, WaitsSound, NewIsThere
<1> QED BY <1>2, <1>3, <1>4

LEMMA Inductive == IInv /\ [Next]_vars => IInv'
<1> SUFFICES ASSUME IInv, [Next]_vars PROVE IInv'
  OBVIOUS
<1>1. CASE UNCHANGED vars
  <2>1. UNCHANGED <<kind, stored, live, form, waits, dialog, isNew>>
    BY <1>1 DEF vars
  <2> QED BY <2>1 DEF IInv, StoredSound, LiveSecure, HasIp, WaitsSound, NewIsThere
<1>2. CASE Next
  BY <1>2, StartKeeps, FormsKeep, SaveFailsKeeps, SaveCommitsKeeps, SaveAddsKeeps,
     AddAnsweredKeeps, WaitEndsKeeps, OthersKeep DEF Next, User
<1> QED BY <1>1, <1>2

\* Whatever fails on the way, however the waits of the dialogs nest and whatever
\* other programs do: what NetworkManager stores has the settings of one security
\* type and a whole IPv4 setting (wifiSecurityApply, ipv4EditorApply, saveProfile).
THEOREM StoresCoherent == Spec => []StoredCoherent
<1>1. IInv => StoredCoherent
  BY DEF IInv, StoredSound, Sound, Secure, StoredCoherent
<1> QED BY InitEstablishes, Inductive, <1>1, PTL DEF Spec
-----------------------------------------------------------------------------
(* What the dialog tells the list.                                         *)

\* A profile that has been added is reported, or the wait for it has yet to end.
Reported == added > 0 => accepted \/ \E i \in 1..Len(waits) : waits[i].answer = "added"

\* A dialog that waits is a new profile's, until it is only hidden.
WaitsAreNew ==
    /\ dialog = "closed" => waits = <<>>
    /\ dialog = "shown" /\ ~isNew => waits = <<>>

LInv ==
    /\ added \in Nat /\ accepted \in BOOLEAN /\ isNew \in BOOLEAN
    /\ accepted => ~isNew
    /\ Reported /\ WaitsAreNew

LEMMA ReportsInit == Init => LInv
<1> SUFFICES ASSUME Init PROVE LInv
  OBVIOUS
<1>1. accepted = FALSE /\ isNew = FALSE /\ added = 0 /\ waits = <<>>
  BY Zenon DEF Init
<1>2. added \in Nat /\ ~(added > 0)
  BY <1>1
<1> QED BY <1>1, <1>2, Zenon DEF LInv, Reported, WaitsAreNew

LEMMA StartReports ==
  ASSUME LInv, New \/ Edit
  PROVE  LInv'
<1>1. PICK p : \E new \in BOOLEAN : Start(p, new)
  BY Zenon DEF New, Edit
<1>2. PICK new \in BOOLEAN : Start(p, new)
  BY <1>1
<1>3. dialog = "closed" /\ accepted' = FALSE /\ isNew' = new /\ added' = 0 /\ waits' = waits
  BY <1>2, Zenon DEF Start
<1>4. waits' = <<>>
  BY <1>3 DEF LInv, WaitsAreNew
<1>5. added' \in Nat /\ ~(added' > 0)
  BY <1>3
<1> QED BY <1>3, <1>4, <1>5, Zenon DEF LInv, Reported, WaitsAreNew

LEMMA CommitReports ==
  ASSUME LInv, SaveCommits
  PROVE  LInv'
<1>1. /\ isNew' = isNew /\ waits' = waits /\ added' = added /\ ~isNew /\ dialog = "shown"
      /\ accepted' = accepted \/ accepted' = TRUE
  BY Zenon DEF SaveCommits, Click
<1>2. waits = <<>>
  BY <1>1 DEF LInv, WaitsAreNew
<1>3. Reported'
  <2>1. CASE accepted' = TRUE
    BY <2>1, Zenon DEF Reported
  <2>2. CASE accepted' = accepted
    <3>1. Reported
      BY DEF LInv
    <3> QED BY <1>1, <2>2, <3>1 DEF Reported
  <2> QED BY <1>1, <2>1, <2>2
<1>4. WaitsAreNew'
  BY <1>1, <1>2, Zenon DEF WaitsAreNew
<1>5. added' \in Nat /\ accepted' \in BOOLEAN /\ isNew' \in BOOLEAN
  BY <1>1, Zenon DEF LInv
<1> QED BY <1>1, <1>3, <1>4, <1>5, Zenon DEF LInv

LEMMA AddReports ==
  ASSUME IInv, LInv, SaveAdds
  PROVE  LInv'
<1> DEFINE w == [profile |-> live', answer |-> "none"]
<1>1. /\ UNCHANGED <<accepted, isNew, added, dialog>> /\ isNew /\ dialog = "shown"
      /\ waits' = Append(waits, w)
  BY DEF SaveAdds, Click
<1> HIDE DEF w
<1>2. PICK S : waits \in Seq(S)
  BY DEF IInv, WaitsSound
<1>3. waits \in Seq(S \cup {w}) /\ w \in S \cup {w}
  BY <1>2
<1>4. /\ Len(waits') = Len(waits) + 1
      /\ \A i \in 1..Len(waits) : waits'[i] = waits[i]
  BY <1>1, <1>3, AppendProperties
<1>5. Len(waits) \in Nat
  BY <1>2, LenProperties
<1>6. \A i \in 1..Len(waits) : i \in 1..Len(waits')
  BY <1>4, <1>5
<1>7. Reported'
  BY <1>1, <1>4, <1>6 DEF LInv, Reported
<1> QED BY <1>1, <1>7 DEF LInv, WaitsAreNew

\* An answer marks the wait it ends, and no other.
LEMMA AnswerReports ==
  ASSUME IInv, LInv, AddAnswered
  PROVE  LInv'
<1>1. PICK i \in DOMAIN waits, a \in {"added", "refused"} :
         /\ waits[i].answer = "none"
         /\ waits' = [waits EXCEPT ![i].answer = a]
         /\ added' = IF a = "added" THEN added + 1 ELSE added
  BY DEF AddAnswered
<1>2. UNCHANGED <<accepted, isNew, dialog>>
  BY DEF AddAnswered
<1>3. PICK S : waits \in Seq(S)
  BY DEF IInv, WaitsSound
<1>4. i \in 1..Len(waits) /\ Len(waits) \in Nat /\ DOMAIN waits = 1..Len(waits)
  BY <1>1, <1>3, LenProperties
<1>5. IsWait(waits[i])
  BY <1>4 DEF IInv, WaitsSound
<1> DEFINE w == [waits[i] EXCEPT !.answer = a]
<1>6. w.answer = a
  BY <1>5 DEF IsWait
<1>7. waits' = [waits EXCEPT ![i] = w]
  BY <1>1
<1> HIDE DEF w
<1>8. /\ Len(waits') = Len(waits)
      /\ \A j \in 1..Len(waits) : waits'[j] = IF j = i THEN w ELSE waits[j]
  BY <1>3, <1>4, <1>7, ExceptSeq
<1>9. Reported'
  <2>1. CASE a = "added"
    BY <1>4, <1>6, <1>8, <2>1 DEF Reported
  <2>2. CASE a = "refused"
    <3>1. \A j \in 1..Len(waits) : waits[j].answer = "added" => waits'[j].answer = "added"
      BY <1>1, <1>8
    <3> QED BY <1>1, <1>2, <1>8, <2>2, <3>1 DEF LInv, Reported
  <2> QED BY <2>1, <2>2
<1>10. waits # <<>>
  BY <1>4
<1> QED BY <1>1, <1>2, <1>9, <1>10 DEF LInv, WaitsAreNew

\* The wait that is taken off the stack is reported, if it was the one.
LEMMA EndReports ==
  ASSUME IInv, LInv, WaitEnds
  PROVE  LInv'
<1> DEFINE n == Len(waits)
           last == waits[n]
           outer == SubSeq(waits, 1, n - 1)
           closes == last.answer = "added" \/ dialog = "hidden"
<1>1. /\ waits # <<>> /\ waits' = outer /\ UNCHANGED added
      /\ dialog' = CASE closes /\ outer = <<>> -> "closed"
                     [] closes /\ outer # <<>> -> "hidden"
                     [] OTHER -> dialog
      /\ isNew' = (isNew /\ last.answer # "added")
      /\ accepted' = (accepted \/ last.answer = "added")
  BY DEF WaitEnds, Accepted
<1>2. PICK S : waits \in Seq(S)
  BY DEF IInv, WaitsSound
<1>3. n \in Nat /\ n # 0
  BY <1>1, <1>2, EmptySeq, LenProperties
<1>4. Len(outer) = n - 1 /\ \A i \in 1..(n - 1) : outer[i] = waits[i]
  <2>1. \A i \in 1..(n - 1) : waits[i] \in S
    BY <1>2, <1>3, ElementOfSeq
  <2>2. n - 1 \in Int /\ 1 \in Int
    BY <1>3
  <2>3. /\ Len(outer) = IF 1 <= n - 1 THEN n - 1 - 1 + 1 ELSE 0
        /\ \A i \in 1..(n - 1 - 1 + 1) : outer[i] = waits[1 + i - 1]
    BY <2>1, <2>2, SubSeqProperties
  <2> HIDE DEF outer, n
  <2> QED BY <1>3, <2>3
<1> HIDE DEF outer, n
<1>5. dialog # "closed" /\ (dialog = "shown" => isNew)
  BY <1>1 DEF LInv, WaitsAreNew
<1>6. Reported'
  <2>1. CASE last.answer = "added"
    BY <1>1, <2>1 DEF Reported
  <2>2. CASE last.answer # "added"
    <3>1. \A i \in 1..n : i # n => i \in 1..(n - 1)
      BY <1>3
    <3>2. ASSUME NEW i \in 1..n, waits[i].answer = "added"
          PROVE  i \in 1..Len(outer) /\ outer[i].answer = "added"
      BY <1>4, <2>2, <3>1, <3>2
    <3>3. added > 0 => accepted \/ \E i \in 1..n : waits[i].answer = "added"
      BY DEF LInv, Reported, n
    <3> QED BY <1>1, <3>2, <3>3 DEF Reported
  <2> QED BY <2>1, <2>2
<1>7. WaitsAreNew'
  <2>1. CASE closes
    BY <1>1, <2>1 DEF WaitsAreNew
  <2>2. CASE ~closes
    BY <1>1, <1>5, <2>2 DEF WaitsAreNew
  <2> QED BY <2>1, <2>2
<1>8. isNew' \in BOOLEAN /\ accepted' \in BOOLEAN /\ (accepted' => ~isNew') /\ added' \in Nat
  BY <1>1 DEF LInv
<1> QED BY <1>6, <1>7, <1>8 DEF LInv

LEMMA OthersReport ==
  ASSUME LInv, \/ TypeField \/ ChooseSecurity \/ TypeCredentials \/ SaveFails
               \/ Cancel \/ Elsewhere \/ Fetched
  PROVE  LInv'
<1>1. UNCHANGED <<accepted, isNew, waits, added>>
  BY DEF TypeField, ChooseSecurity, TypeCredentials, Enter, SaveFails, Cancel, Elsewhere, Fetched
<1>2. \/ UNCHANGED dialog
      \/ dialog' = IF waits = <<>> THEN "closed" ELSE "hidden"
  BY DEF TypeField, ChooseSecurity, TypeCredentials, Enter, SaveFails, Cancel, Elsewhere, Fetched
<1>3. Reported'
  BY <1>1 DEF LInv, Reported
<1> QED BY <1>1, <1>2, <1>3 DEF LInv, WaitsAreNew

LEMMA ReportsInductive == IInv /\ LInv /\ [Next]_vars => LInv'
<1> SUFFICES ASSUME IInv, LInv, [Next]_vars PROVE LInv'
  OBVIOUS
<1>1. CASE UNCHANGED vars
  <2>1. UNCHANGED <<accepted, isNew, waits, added, dialog>>
    BY <1>1 DEF vars
  <2> QED BY <2>1 DEF LInv, Reported, WaitsAreNew
<1>2. CASE Next
  BY <1>2, StartReports, CommitReports, AddReports, AnswerReports, EndReports, OthersReport
  DEF Next, User
<1> QED BY <1>1, <1>2

\* However the waits for NetworkManager nest and in whatever order the user closes
\* the dialog meanwhile: once it has closed, exec() says "accepted" if the dialog has
\* added a profile, and says so of none where it has neither added nor changed one
\* (addConnectionProfile's wait, accept() after reject()).
THEOREM ListLearns == Spec => []ListKnows
<1>1. LInv => ListKnows
  <2> SUFFICES ASSUME LInv, dialog = "closed"
               PROVE  (accepted => added > 0 \/ ~isNew) /\ (added > 0 => accepted)
    BY DEF ListKnows
  <2>1. 1..Len(waits) = {}
    BY DEF LInv, WaitsAreNew
  <2> QED BY <2>1 DEF LInv, Reported
<1> QED BY InitEstablishes, Inductive, ReportsInit, ReportsInductive, <1>1, PTL DEF Spec

-----------------------------------------------------------------------------
(* Types.                                                                  *)

\* A value that is written keeps the type of a function.
LEMMA ValueWritten ==
  ASSUME NEW D, NEW R, NEW f \in [D -> R], NEW k, NEW v \in R
  PROVE  [f EXCEPT ![k] = v] \in [D -> R]
OBVIOUS

\* findVpnDataKey: the first of two keys that has a value.
LEMMA FirstOfTwo ==
  ASSUME NEW values, NEW ks, NEW a, NEW b, ks = <<a, b>>
  PROVE  FirstSet(values, ks) =
           IF values[a] # "" THEN a ELSE IF values[b] # "" THEN b ELSE ""
<1> DEFINE set == {i \in DOMAIN ks : values[ks[i]] # ""}
           first == CHOOSE i \in set : \A j \in set : i <= j
<1>1. DOMAIN ks = {1, 2} /\ ks[1] = a /\ ks[2] = b
  OBVIOUS
<1>2. FirstSet(values, ks) = IF set = {} THEN "" ELSE ks[first]
  BY DEF FirstSet
<1>3. /\ set \subseteq {1, 2} /\ (1 \in set <=> values[a] # "")
      /\ (2 \in set <=> values[b] # "")
  BY <1>1
<1> HIDE DEF set
<1>4. CASE 1 \in set
  <2>1. 1 \in set /\ \A j \in set : 1 <= j
    <3> SUFFICES ASSUME NEW j \in set PROVE 1 <= j
      BY <1>4
    <3>1. j = 1 \/ j = 2
      BY <1>3
    <3> QED BY <3>1
  <2>2. first \in set /\ \A j \in set : first <= j
    BY <2>1
  <2> HIDE DEF first
  <2>3. first = 1
    <3>1. first = 1 \/ first = 2
      BY <1>3, <2>2
    <3>2. first <= 1
      BY <2>1, <2>2
    <3> QED BY <3>1, <3>2
  <2> QED BY <1>1, <1>2, <1>3, <1>4, <2>3
<1>5. CASE 1 \notin set /\ 2 \in set
  <2>1. set = {2}
    BY <1>3, <1>5
  <2>2. first \in set
    BY <2>1
  <2>3. first = 2
    BY <2>1, <2>2
  <2> HIDE DEF first
  <2> QED BY <1>1, <1>2, <1>3, <1>5, <2>3
<1>6. CASE set = {}
  BY <1>2, <1>3, <1>6
<1> QED BY <1>3, <1>4, <1>5, <1>6

\* The keys for the server and for the user.
LEMMA FirstServer ==
  ASSUME NEW values
  PROVE  FirstSet(values, ServerKeys) =
           IF values["remote"] # "" THEN "remote"
           ELSE IF values["gateway"] # "" THEN "gateway" ELSE ""
BY FirstOfTwo DEF ServerKeys

LEMMA FirstUser ==
  ASSUME NEW values
  PROVE  FirstSet(values, UserKeys) =
           IF values["username"] # "" THEN "username"
           ELSE IF values["user"] # "" THEN "user" ELSE ""
BY FirstOfTwo DEF UserKeys

\* findVpnSecretKey: one of the keys, or none.
LEMMA FirstPassword ==
  ASSUME NEW values
  PROVE  /\ FirstSet(values, PasswordKeys) \in SecretKeys \cup {""}
         /\ (\A k \in SecretKeys : values[k] = "") => FirstSet(values, PasswordKeys) = ""
<1> DEFINE set == {i \in DOMAIN PasswordKeys : values[PasswordKeys[i]] # ""}
           first == CHOOSE i \in set : \A j \in set : i <= j
<1>1. DOMAIN PasswordKeys = {1, 2, 3} /\ \A i \in {1, 2, 3} : PasswordKeys[i] \in SecretKeys
  BY DEF PasswordKeys, SecretKeys
<1>2. FirstSet(values, PasswordKeys) = IF set = {} THEN "" ELSE PasswordKeys[first]
  BY DEF FirstSet
<1>3. set \subseteq {1, 2, 3} /\ ((\A k \in SecretKeys : values[k] = "") => set = {})
  BY <1>1
<1> HIDE DEF set
<1>4. CASE set # {}
  <2>1. \E i \in set : \A j \in set : i <= j
    <3>1. \A j \in set : j = 1 \/ j = 2 \/ j = 3
      BY <1>3
    <3>2. CASE 1 \in set
      <4>1. \A j \in set : 1 <= j
        BY <3>1
      <4> QED BY <3>2, <4>1
    <3>3. CASE 1 \notin set /\ 2 \in set
      <4>1. \A j \in set : j = 2 \/ j = 3
        BY <3>1, <3>3
      <4>2. \A j \in set : 2 <= j
        BY <4>1
      <4> QED BY <3>3, <4>2
    <3>4. CASE 1 \notin set /\ 2 \notin set
      <4>1. \A j \in set : j = 3
        BY <3>1, <3>4
      <4>2. \A j \in set : 3 <= j
        BY <4>1
      <4> QED BY <1>4, <4>1, <4>2
    <3> QED BY <3>2, <3>3, <3>4
  <2>2. first \in set
    BY <2>1
  <2> HIDE DEF first
  <2> QED BY <1>1, <1>2, <1>3, <1>4, <2>2
<1>5. CASE set = {}
  BY <1>2, <1>5
<1> QED BY <1>3, <1>4, <1>5

\* What the data of a plugin's profile have under one of some keys.
LEMMA DataValueTyped ==
  ASSUME NEW v, v.data \in [DataKeys -> DataValues]
  PROVE  DataValue(v, ServerKeys) \in DataValues /\ DataValue(v, UserKeys) \in DataValues
<1> DEFINE server == FirstSet(v.data, ServerKeys)
           user == FirstSet(v.data, UserKeys)
<1>1. server \in DataKeys \cup {""} /\ user \in DataKeys \cup {""}
  BY FirstServer, FirstUser DEF DataKeys
<1>2. "" \in DataValues
  BY DEF DataValues
<1>3. /\ DataValue(v, ServerKeys) = IF server = "" THEN "" ELSE v.data[server]
      /\ DataValue(v, UserKeys) = IF user = "" THEN "" ELSE v.data[user]
  BY DEF DataValue
<1> HIDE DEF server, user
<1> QED BY <1>1, <1>2, <1>3

LEMMA KeysTyped == ASSUME NEW k, NEW v PROVE KeysOf(k, v) \in Keys
<1> DEFINE server == FirstSet(v.data, ServerKeys)
           password == FirstSet(v.secrets, PasswordKeys)
<1>1. server \in DataKeys \cup {""} /\ password \in SecretKeys \cup {""}
  BY FirstServer, FirstPassword DEF DataKeys
<1>2. DefaultServerKey(k) \in DataKeys /\ "password" \in SecretKeys
  BY DEF DefaultServerKey, DataKeys, SecretKeys
<1>3. KeysOf(k, v) = IF k \notin PluginKinds THEN [server |-> "", password |-> ""]
                     ELSE [server |-> IF server = "" THEN DefaultServerKey(k) ELSE server,
                           password |-> IF password = "" THEN "password" ELSE password]
  BY DEF KeysOf
<1> DEFINE s == IF server = "" THEN DefaultServerKey(k) ELSE server
           p == IF password = "" THEN "password" ELSE password
<1> HIDE DEF server, password
<1>4. s \in OrNone(DataKeys) /\ p \in OrNone(SecretKeys)
  BY <1>1, <1>2 DEF OrNone
<1>5. KeysOf(k, v) = IF k \notin PluginKinds THEN [server |-> "", password |-> ""]
                     ELSE [server |-> s, password |-> p]
  BY <1>3
<1> HIDE DEF s, p
<1>6. CASE k \notin PluginKinds
  <2>1. "" \in OrNone(DataKeys) /\ "" \in OrNone(SecretKeys)
    BY DEF OrNone
  <2> DEFINE none == [server |-> "", password |-> ""]
  <2>2. none \in Keys
    BY <2>1 DEF Keys
  <2>3. KeysOf(k, v) = none
    BY <1>5, <1>6
  <2> HIDE DEF none
  <2> QED BY <2>2, <2>3
<1>7. CASE k \in PluginKinds
  BY <1>4, <1>5, <1>7 DEF Keys
<1> QED BY <1>6, <1>7

\* The fields of a VPN profile and of its form.
LEMMA VpnFields ==
  ASSUME NEW v \in Vpn
  PROVE  /\ v.data \in [DataKeys -> DataValues] /\ v.user \in DataValues
         /\ v.secrets \in [SecretKeys -> Passwords] /\ v.privateKey \in PrivateKeys
         /\ v.peer \in Peers
BY DEF Vpn

LEMMA VpnFormFields ==
  ASSUME NEW f \in VpnForm
  PROVE  /\ f.server \in DataValues /\ f.user \in DataValues /\ f.password \in Passwords
         /\ f.extra \in DataValues /\ f.ipsec \in BOOLEAN /\ f.psk \in Passwords
         /\ f.privateKey \in PrivateKeys /\ f.publicKey \in KeyTexts
         /\ f.endpoint \in EndpointTexts /\ f.ranges \in IpsTexts
         /\ f.keepalive \in KeepaliveTexts
BY DEF VpnForm

\* The fields of a plugin's profile stay fields of one.
LEMMA PluginSaveTyped ==
  ASSUME NEW k, NEW ks, NEW new, NEW v \in Vpn, NEW f \in VpnForm
  PROVE  PluginSave(k, ks, new, v, f).vpn \in Vpn
<1>1. CASE f.server = "" \/ (new /\ f.password = "")
  BY <1>1 DEF PluginSave
<1>2. CASE ~(f.server = "" \/ (new /\ f.password = ""))
  <2> DEFINE served == [v.data EXCEPT ![ks.server] = f.server]
             extra == IF HasExtra(k) THEN [served EXCEPT ![ExtraKey(k)] = f.extra] ELSE served
             data == IF k = "l2tp"
                     THEN [extra EXCEPT !["ipsec-enabled"] = IF f.ipsec THEN "yes" ELSE "no"]
                     ELSE extra
             psk == Secretly(v.secrets["ipsec-psk"], f.psk)
             shared == IF k = "l2tp" /\ f.ipsec
                       THEN [v.secrets EXCEPT !["ipsec-psk"] = psk] ELSE v.secrets
             password == Secretly(shared[ks.password], f.password)
             secrets == [shared EXCEPT ![ks.password] = password]
  <2>1. PluginSave(k, ks, new, v, f).vpn =
          [v EXCEPT !.data = data, !.user = f.user, !.secrets = secrets]
    BY <1>2 DEF PluginSave
  <2>2. /\ v.data \in [DataKeys -> DataValues] /\ v.secrets \in [SecretKeys -> Passwords]
        /\ f.server \in DataValues /\ f.extra \in DataValues /\ f.user \in DataValues
        /\ f.psk \in Passwords /\ f.password \in Passwords
    BY VpnFields, VpnFormFields
  <2>3. served \in [DataKeys -> DataValues]
    BY <2>2, ValueWritten
  <2>4. extra \in [DataKeys -> DataValues]
    <3> HIDE DEF served
    <3> QED BY <2>2, <2>3, ValueWritten
  <2>5. data \in [DataKeys -> DataValues]
    <3>1. (IF f.ipsec THEN "yes" ELSE "no") \in DataValues
      BY DEF DataValues
    <3> HIDE DEF extra
    <3> QED BY <2>4, <3>1, ValueWritten
  <2>6. shared \in [SecretKeys -> Passwords]
    <3>1. psk \in Passwords
      BY <2>2 DEF Secretly, SecretKeys
    <3> HIDE DEF psk
    <3> QED BY <2>2, <3>1, ValueWritten
  <2> HIDE DEF data, shared
  <2>7. secrets \in [SecretKeys -> Passwords]
    <3>1. CASE ks.password \in SecretKeys
      <4>1. password \in Passwords
        BY <2>2, <2>6, <3>1 DEF Secretly
      <4> HIDE DEF password
      <4> QED BY <2>6, <4>1, ValueWritten
    <3>2. CASE ks.password \notin SecretKeys
      <4> HIDE DEF password
      <4>1. secrets = shared
        BY <2>6, <3>2
      <4> HIDE DEF secrets
      <4> QED BY <2>6, <4>1
    <3> QED BY <3>1, <3>2
  <2> HIDE DEF secrets
  <2>8. [v EXCEPT !.data = data, !.user = f.user, !.secrets = secrets] \in Vpn
    BY <2>2, <2>5, <2>7 DEF Vpn
  <2> QED BY <2>1, <2>8
<1> QED BY <1>1, <1>2

LEMMA KeepaliveTaken ==
  ASSUME NEW k \in KeepaliveTexts, KeepaliveValid(k)
  PROVE  k \in Keepalives
<1>1. CASE k \in Keepalives
  BY <1>1
<1>2. CASE k = 65536
  <2>1. ~(65536 <= 65535)
    OBVIOUS
  <2> QED BY <1>2, <2>1 DEF KeepaliveValid
<1> QED BY <1>1, <1>2 DEF KeepaliveTexts

\* And so do those of a WireGuard profile.
LEMMA WireGuardSaveTyped ==
  ASSUME NEW sealed, NEW new, NEW v \in Vpn, NEW f \in VpnForm
  PROVE  WireGuardSave(sealed, new, v, f).vpn \in Vpn
<1> DEFINE hasPeer == v.peer # NoPeer
           keyed == [v EXCEPT !.privateKey = Secretly(v.privateKey, f.privateKey)]
           public == [v.peer EXCEPT !.publicKey = f.publicKey]
           whole == [publicKey |-> f.publicKey, endpoint |-> f.endpoint,
                     ranges |-> Ranges(f.ranges), keepalive |-> f.keepalive]
<1>1. keyed \in Vpn
  <2>1. Secretly(v.privateKey, f.privateKey) \in PrivateKeys
    BY DEF Vpn, VpnForm, Secretly
  <2> QED BY <2>1 DEF Vpn
<1>2. ASSUME NEW p \in Peers PROVE [keyed EXCEPT !.peer = p] \in Vpn
  <2> HIDE DEF keyed
  <2> QED BY <1>1, <1>2 DEF Vpn
<1>3. KeyValid(f.publicKey) => public \in Peers
  <2> SUFFICES ASSUME KeyValid(f.publicKey) PROVE public \in Peers
    OBVIOUS
  <2>1. v.peer \in Peers /\ f.publicKey \in KeyTexts
    BY VpnFields, VpnFormFields
  <2>2. f.publicKey \in PublicKeys
    BY <2>1 DEF KeyValid, KeyTexts
  <2> QED BY <2>1, <2>2 DEF Peers
<1>4. ~WireGuardRefused(new, f) /\ KeyValid(f.publicKey) /\ EndpointValid(f.endpoint)
        => whole \in Peers
  <2> SUFFICES ASSUME ~WireGuardRefused(new, f), KeyValid(f.publicKey), EndpointValid(f.endpoint)
               PROVE  whole \in Peers
    OBVIOUS
  <2>1. /\ f.publicKey \in KeyTexts /\ f.endpoint \in EndpointTexts
        /\ f.ranges \in IpsTexts /\ f.keepalive \in KeepaliveTexts
    BY VpnFormFields
  <2>2. f.publicKey \in PublicKeys /\ f.endpoint \in Endpoints
    BY <2>1 DEF KeyValid, EndpointValid, KeyTexts, EndpointTexts
  <2>3. Ranges(f.ranges) \in AllowedIps
    BY <2>1 DEF Ranges, IpsTexts, AllowedIps
  <2>4. f.keepalive \in Keepalives
    <3>1. KeepaliveValid(f.keepalive)
      BY DEF WireGuardRefused
    <3> QED BY <2>1, <3>1, KeepaliveTaken
  <2> QED BY <2>2, <2>3, <2>4 DEF Peers
<1>5. CASE WireGuardRefused(new, f)
  BY <1>5 DEF WireGuardSave
<1>6. CASE ~WireGuardRefused(new, f) /\ (~KeyValid(f.publicKey) \/ (hasPeer /\ sealed))
  <2>1. WireGuardSave(sealed, new, v, f).vpn = keyed
    BY <1>6 DEF WireGuardSave
  <2> HIDE DEF keyed
  <2> QED BY <1>1, <2>1
<1>7. CASE ~WireGuardRefused(new, f) /\ KeyValid(f.publicKey) /\ ~(hasPeer /\ sealed)
             /\ ~EndpointValid(f.endpoint)
  <2>1. WireGuardSave(sealed, new, v, f).vpn =
          IF hasPeer THEN [keyed EXCEPT !.peer = public] ELSE keyed
    BY <1>7 DEF WireGuardSave
  <2> HIDE DEF keyed, public
  <2> QED BY <1>1, <1>2, <1>3, <1>7, <2>1
<1>8. CASE ~WireGuardRefused(new, f) /\ KeyValid(f.publicKey) /\ ~(hasPeer /\ sealed)
             /\ EndpointValid(f.endpoint)
  <2>1. WireGuardSave(sealed, new, v, f).vpn = [keyed EXCEPT !.peer = whole]
    BY <1>8 DEF WireGuardSave, PeerSet
  <2> HIDE DEF keyed, whole
  <2> QED BY <1>2, <1>4, <1>8, <2>1
<1> QED BY <1>5, <1>6, <1>7, <1>8

-----------------------------------------------------------------------------
(* Profiles and forms.                                                     *)

LEMMA ProfileFields ==
  ASSUME NEW p \in Profile
  PROVE  /\ IsProfile(p) /\ p.mtu \in MtuSet /\ p.sec \in Security
         /\ p.mac \in MacSet /\ p.cloned \in MacSet /\ MacShown(p) \in MacSet
         /\ p.ip \in IpSetting /\ p.vpn \in Vpn
BY DEF Profile, IsProfile, MacShown

\* A field that is written leaves a profile.
LEMMA ProfileWritten ==
  ASSUME NEW p \in Profile
  PROVE  /\ \A v \in MtuSet : [p EXCEPT !.mtu = v] \in Profile
         /\ \A v \in MacSet : [p EXCEPT !.mac = v, !.cloned = ""] \in Profile
         /\ \A v \in Security : [p EXCEPT !.sec = v] \in Profile
         /\ \A v \in IpSetting : [p EXCEPT !.ip = v] \in Profile
         /\ \A v \in Vpn : [p EXCEPT !.vpn = v] \in Profile
BY DEF Profile, MacSet

LEMMA FormFields ==
  ASSUME NEW f \in Form
  PROVE  /\ f.complete \in BOOLEAN /\ f.mtu \in Nat /\ f.mac \in MacSet /\ f.type \in OnOffer
         /\ f.identity \in Identities /\ f.secret \in Secrets /\ f.ip \in IpForm
         /\ f.vpn \in VpnForm
BY DEF Form

LEMMA GoneIsNoProfile == Gone \notin Profile
<1>1. ASSUME NEW p, IsProfile(p) PROVE p # Gone
  BY <1>1 DEF IsProfile, Gone
<1> QED BY <1>1, ProfileFields

LEMMA MtuSaved ==
  ASSUME NEW p \in Profile, NEW f \in Form
  PROVE  SaveMtu(p, f).profile \in Profile
<1>1. CASE f.mtu = 0 \/ MtuValid(f.mtu)
  <2>1. f.mtu \in MtuSet
    BY <1>1 DEF MtuValid, MtuSet
  <2>2. SaveMtu(p, f).profile = [p EXCEPT !.mtu = f.mtu]
    BY <1>1 DEF SaveMtu
  <2> QED BY <2>1, <2>2, ProfileWritten
<1>2. CASE ~(f.mtu = 0 \/ MtuValid(f.mtu))
  <2>1. SaveMtu(p, f).profile = p
    BY <1>2 DEF SaveMtu
  <2> QED BY <2>1
<1> QED BY <1>1, <1>2

LEMMA SecuritySaved ==
  ASSUME NEW p \in Profile, NEW f \in Form
  PROVE  SaveSecurity(p, f).profile \in Profile
<1>1. /\ f.type \in Types /\ f.identity \in Identities /\ f.secret \in Secrets
      /\ p.sec \in Security
  BY FormFields, ProfileFields, OnOfferTypes
<1>2. CASE Rewrites(f) /\ CredentialsValid(f.type, f.identity, f.secret)
  <2> DEFINE a == Applied(Clear(p.sec), f.type, f.identity, f.secret)
  <2>1. a \in Security
    BY <1>1, <1>2, AppliedIsCoherent
  <2>2. SaveSecurity(p, f).profile = [p EXCEPT !.sec = a]
    BY <1>2 DEF SaveSecurity
  <2> HIDE DEF a
  <2> QED BY <2>1, <2>2, ProfileWritten
<1>3. CASE Rewrites(f) /\ ~CredentialsValid(f.type, f.identity, f.secret)
  <2>1. SaveSecurity(p, f).profile = [p EXCEPT !.sec = Open]
    BY <1>3 DEF SaveSecurity, Clear, Open
  <2> QED BY <2>1, ProfileWritten, OpenIsCoherent
<1>4. CASE ~Rewrites(f) /\ NeedsIdentity(f.type) /\ f.identity # "" /\ p.sec.x.present
  <2> DEFINE n == [p.sec EXCEPT !.x.identity = f.identity]
  <2>1. n \in Security
    BY <1>1 DEF Security
  <2>2. SaveSecurity(p, f).profile = [p EXCEPT !.sec.x.identity = f.identity]
    BY <1>4 DEF SaveSecurity
  <2>3. [p EXCEPT !.sec.x.identity = f.identity] = [p EXCEPT !.sec = n]
    OBVIOUS
  <2> HIDE DEF n
  <2> QED BY <2>1, <2>2, <2>3, ProfileWritten
<1>5. CASE ~Rewrites(f) /\ ~(NeedsIdentity(f.type) /\ f.identity # "" /\ p.sec.x.present)
  <2>1. SaveSecurity(p, f).profile = p
    BY <1>5 DEF SaveSecurity
  <2> QED BY <2>1
<1> QED BY <1>2, <1>3, <1>4, <1>5

LEMMA IpSettingFields ==
  ASSUME NEW s \in IpSetting
  PROVE  s.addresses \in Seq([ip : Addresses, prefix : Prefixes])
BY DEF IpSetting

LEMMA IpFormFields ==
  ASSUME NEW f \in IpForm
  PROVE  /\ f.manual \in BOOLEAN /\ f.address \in Addresses \cup {"", "bad"}
         /\ f.netmask \in Netmasks /\ f.gateway \in {"", "gw"} /\ f.dns \in Servers
BY DEF IpForm

LEMMA AutomaticTyped == Automatic \in IpSetting
<1>1. <<>> \in Seq([ip : Addresses, prefix : Prefixes])
  OBVIOUS
<1> QED BY <1>1 DEF Automatic, IpSetting, Servers

LEMMA IpMadeAutomatic ==
  ASSUME NEW s, NEW f, ~f.manual
  PROVE  IpApply(s, f).ip = Automatic
BY DEF IpApply, IpAutomatic, IpRefusedEarly

LEMMA IpAppliedTyped ==
  ASSUME NEW s \in IpSetting, NEW f \in IpForm
  PROVE  IpApply(s, f).ip \in IpSetting
<1>1. CASE ~f.manual
  <2>1. IpApply(s, f).ip = Automatic
    BY <1>1, IpMadeAutomatic
  <2> QED BY <2>1, AutomaticTyped
<1>2. CASE f.manual /\ IpRefusedEarly(f)
  <2>1. IpApply(s, f).ip = s
    BY <1>2 DEF IpApply
  <2> QED BY <2>1
<1>3. CASE f.manual /\ ~IpRefusedEarly(f) /\ f.address = "bad"
  <2>1. IpApply(s, f).ip = [s EXCEPT !.method = "manual", !.addresses = <<>>]
    BY <1>3 DEF IpApply
  <2>2. <<>> \in Seq([ip : Addresses, prefix : Prefixes])
    OBVIOUS
  <2>3. [s EXCEPT !.method = "manual", !.addresses = <<>>] \in IpSetting
    BY <2>2 DEF IpSetting
  <2> QED BY <2>1, <2>3
<1>4. CASE f.manual /\ ~IpRefusedEarly(f) /\ f.address # "bad"
  <2> DEFINE prefix == IF NetmaskValid(f.netmask) THEN PrefixOf(f.netmask) ELSE DefaultPrefix
             first == [ip |-> f.address, prefix |-> prefix]
  <2>1. IpApply(s, f).ip = [method |-> "manual", addresses |-> <<first>>,
                            gateway |-> f.gateway, dns |-> f.dns]
    BY <1>4 DEF IpApply, Addressed
  <2>2. f.address \in Addresses
    BY <1>4, IpFormFields DEF IpRefusedEarly
  <2>3. prefix \in Prefixes
    BY DEF PrefixOf, Prefixes
  <2> HIDE DEF prefix
  <2>4. first \in [ip : Addresses, prefix : Prefixes]
    BY <2>2, <2>3
  <2> HIDE DEF first
  <2>5. <<first>> \in Seq([ip : Addresses, prefix : Prefixes])
    BY <2>4
  <2>6. f.gateway \in {"", "gw"} /\ f.dns \in Servers
    BY IpFormFields
  <2> DEFINE addresses == <<first>>
  <2> HIDE DEF addresses
  <2>7. [method |-> "manual", addresses |-> addresses, gateway |-> f.gateway, dns |-> f.dns]
          \in IpSetting
    BY <2>5, <2>6 DEF IpSetting, addresses
  <2> QED BY <2>1, <2>7 DEF addresses
<1> QED BY <1>1, <1>2, <1>3, <1>4

LEMMA IpSaved ==
  ASSUME NEW p \in Profile, NEW f \in Form
  PROVE  SaveIp(p, f).profile \in Profile
<1>1. IpApply(p.ip, f.ip).ip \in IpSetting
  BY ProfileFields, FormFields, IpAppliedTyped
<1>2. SaveIp(p, f).profile = [p EXCEPT !.ip = IpApply(p.ip, f.ip).ip]
  BY DEF SaveIp
<1> QED BY <1>1, <1>2, ProfileWritten

LEMMA VpnSaved ==
  ASSUME NEW p \in Profile, NEW f \in Form
  PROVE  SaveVpn(p, f).profile \in Profile
<1>1. p.vpn \in Vpn /\ f.vpn \in VpnForm
  BY ProfileFields, FormFields
<1>2. VpnSave(kind, Sealed, keys, isNew, p.vpn, f.vpn).vpn \in Vpn
  BY <1>1, PluginSaveTyped, WireGuardSaveTyped DEF VpnSave
<1>3. SaveVpn(p, f).profile =
        [p EXCEPT !.vpn = VpnSave(kind, Sealed, keys, isNew, p.vpn, f.vpn).vpn]
  BY DEF SaveVpn
<1> QED BY <1>2, <1>3, ProfileWritten

\* Whatever fails on the way, saveProfile leaves a profile.
LEMMA SavedTyped ==
  ASSUME NEW p \in Profile, NEW f \in Form
  PROVE  Saved(p, f).profile \in Profile
<1>1. CASE ~f.complete
  BY <1>1 DEF Saved
<1>2. CASE f.complete /\ kind = "wifi"
  <2> DEFINE mtu == SaveMtu(p, f)
             sec == IF mtu.ok THEN SaveSecurity(mtu.profile, f) ELSE mtu
  <2>1. Saved(p, f) = IF sec.ok THEN SaveIp(sec.profile, f) ELSE sec
    BY <1>2 DEF Saved, SaveWifi
  <2>2. mtu.profile \in Profile
    BY MtuSaved
  <2> HIDE DEF mtu
  <2>3. sec.profile \in Profile
    BY <2>2, SecuritySaved
  <2> HIDE DEF sec
  <2> QED BY <2>1, <2>3, IpSaved
<1>3. CASE f.complete /\ kind = "wired"
  <2> DEFINE q == [p EXCEPT !.mac = f.mac, !.cloned = ""]
  <2>1. q \in Profile
    BY ProfileWritten, FormFields
  <2>2. Saved(p, f) = SaveIp(q, f)
    BY <1>3 DEF Saved, SaveWired
  <2> HIDE DEF q
  <2> QED BY <2>1, <2>2, IpSaved
<1>4. CASE f.complete /\ kind \notin {"wifi", "wired"}
  <2>1. Saved(p, f) = SaveVpn(p, f)
    BY <1>4 DEF Saved
  <2> QED BY <2>1, VpnSaved
<1> QED BY <1>1, <1>2, <1>3, <1>4

LEMMA DetectedTyped == ASSUME NEW sec PROVE Detected(sec) \in Types
BY DEF Detected, Types

\* What the fields show of an IPv4 setting.
LEMMA IpLoadTyped ==
  ASSUME NEW s \in IpSetting
  PROVE  IpLoad(s) \in IpForm
<1> DEFINE manual == s.method = "manual"
           shown == manual /\ s.addresses # <<>>
           address == IF shown THEN s.addresses[1].ip ELSE ""
           netmask == IF shown THEN NetmaskOf(s.addresses[1].prefix) ELSE ""
           texts == Addresses \cup {"", "bad"}
           names == {"", "gw"}
<1>1. /\ s.gateway \in names /\ s.dns \in Servers
      /\ s.addresses \in Seq([ip : Addresses, prefix : Prefixes])
  BY DEF IpSetting
<1>2. shown => s.addresses[1] \in [ip : Addresses, prefix : Prefixes]
  <2> SUFFICES ASSUME shown PROVE s.addresses[1] \in [ip : Addresses, prefix : Prefixes]
    OBVIOUS
  <2>1. Len(s.addresses) \in Nat /\ Len(s.addresses) # 0
    BY <1>1, EmptySeq, LenProperties
  <2>2. 1 \in 1..Len(s.addresses)
    BY <2>1
  <2> QED BY <1>1, <2>2, ElementOfSeq
<1>3. address \in texts
  BY <1>2
<1>4. netmask \in Netmasks
  BY DEF NetmaskOf, Netmasks
<1>5. IpLoad(s) = [manual |-> manual, address |-> address, netmask |-> netmask,
                   gateway |-> s.gateway, dns |-> s.dns]
  BY DEF IpLoad
<1>6. IpForm = [manual : BOOLEAN, address : texts, netmask : Netmasks, gateway : names,
                dns : Servers]
  BY DEF IpForm
<1>7. manual \in BOOLEAN
  OBVIOUS
<1> HIDE DEF address, netmask, manual, texts, names
<1> QED BY <1>1, <1>3, <1>4, <1>5, <1>6, <1>7

LEMMA NoVpnFormTyped == NoVpnForm \in VpnForm
<1>1. /\ "" \in DataValues /\ "" \in Passwords /\ "" \in PrivateKeys
      /\ "" \in KeyTexts /\ "" \in EndpointTexts /\ "" \in IpsTexts /\ 0 \in KeepaliveTexts
  BY DEF DataValues, Passwords, PrivateKeys, KeyTexts, EndpointTexts, IpsTexts,
         KeepaliveTexts, PublicKeys, Endpoints, AllowedIps, Keepalives
<1> QED BY <1>1 DEF NoVpnForm, VpnForm

\* What the fields show of a VPN profile.
LEMMA VpnLoadTyped ==
  ASSUME NEW k, NEW v \in Vpn
  PROVE  VpnLoad(k, v) \in VpnForm
<1>1. CASE k \in PluginKinds
  <2> DEFINE server == DataValue(v, ServerKeys)
             user == IF v.user = "" THEN DataValue(v, UserKeys) ELSE v.user
             extra == IF HasExtra(k) THEN v.data[ExtraKey(k)] ELSE ""
             ipsec == k = "l2tp" /\ v.data["ipsec-enabled"] # "no"
  <2>1. VpnLoad(k, v) = [NoVpnForm EXCEPT !.server = server, !.user = user,
                                          !.extra = extra, !.ipsec = ipsec]
    BY <1>1 DEF VpnLoad
  <2>2. v.data \in [DataKeys -> DataValues] /\ v.user \in DataValues
    BY VpnFields
  <2>3. "" \in DataValues
    BY DEF DataValues
  <2>4. server \in DataValues /\ user \in DataValues
    BY <2>2, DataValueTyped
  <2>5. extra \in DataValues
    <3>1. ExtraKey(k) \in DataKeys
      BY DEF ExtraKey, DataKeys
    <3> QED BY <2>2, <2>3, <3>1
  <2>6. ipsec \in BOOLEAN
    OBVIOUS
  <2> HIDE DEF server, user, extra, ipsec
  <2>7. [NoVpnForm EXCEPT !.server = server, !.user = user, !.extra = extra,
                          !.ipsec = ipsec] \in VpnForm
    BY <2>2, <2>4, <2>5, <2>6, NoVpnFormTyped DEF VpnForm
  <2> QED BY <2>1, <2>7
<1>2. CASE k \notin PluginKinds
  <2>1. v.peer \in Peers
    BY VpnFields
  <2>2. /\ v.peer.publicKey \in KeyTexts /\ v.peer.endpoint \in EndpointTexts
        /\ v.peer.ranges \in IpsTexts /\ v.peer.keepalive \in KeepaliveTexts
    <3>1. /\ v.peer.publicKey \in PublicKeys /\ v.peer.endpoint \in Endpoints
          /\ v.peer.ranges \in AllowedIps /\ v.peer.keepalive \in Keepalives
      BY <2>1 DEF Peers
    <3>2. PublicKeys \subseteq KeyTexts /\ Endpoints \subseteq EndpointTexts
      BY DEF KeyTexts, EndpointTexts
    <3>3. AllowedIps \subseteq IpsTexts
      BY DEF IpsTexts
    <3>4. Keepalives \subseteq KeepaliveTexts
      BY DEF KeepaliveTexts
    <3> QED BY <3>1, <3>2, <3>3, <3>4
  <2>3. VpnLoad(k, v) = [NoVpnForm EXCEPT !.publicKey = v.peer.publicKey,
                           !.endpoint = v.peer.endpoint, !.ranges = v.peer.ranges,
                           !.keepalive = v.peer.keepalive]
    BY <1>2 DEF VpnLoad
  <2>4. [NoVpnForm EXCEPT !.publicKey = v.peer.publicKey, !.endpoint = v.peer.endpoint,
           !.ranges = v.peer.ranges, !.keepalive = v.peer.keepalive] \in VpnForm
    BY <2>2, NoVpnFormTyped DEF VpnForm
  <2> QED BY <2>3, <2>4
<1> QED BY <1>1, <1>2

\* The fields of a form that are written.
LEMMA FormForType ==
  ASSUME NEW f \in Form, NEW type \in OnOffer
  PROVE  ForType(f, type) \in Form
<1> DEFINE identity == IF NeedsIdentity(type) THEN f.identity ELSE ""
           secret == IF NeedsSecret(type) THEN f.secret ELSE ""
<1>1. identity \in Identities /\ secret \in Secrets
  BY FormFields DEF Identities, Secrets
<1>2. ForType(f, type) =
        [f EXCEPT !.type = type, !.identity = identity, !.secret = secret]
  BY DEF ForType
<1> HIDE DEF identity, secret
<1>3. [f EXCEPT !.type = type, !.identity = identity, !.secret = secret] \in Form
  BY <1>1 DEF Form
<1> QED BY <1>2, <1>3

LEMMA MtuIsNat == MtuSet \subseteq Nat
BY DEF MtuSet

\* The dialog shows a profile in fields of its form.
LEMMA FormLoaded ==
  ASSUME NEW p \in Profile
  PROVE  Loaded(p) \in Form
<1> DEFINE shown == IF Detected(p.sec) \in OnOffer THEN Detected(p.sec) ELSE "None"
           f == [complete |-> TRUE, mtu |-> p.mtu, mac |-> MacShown(p), type |-> "None",
                 identity |-> p.sec.x.identity, secret |-> "", ip |-> IpLoad(p.ip),
                 vpn |-> VpnLoad(kind, p.vpn)]
<1>1. shown \in OnOffer /\ "None" \in OnOffer
  BY OnOfferTypes
<1>2. p.mtu \in Nat /\ MacShown(p) \in MacSet /\ p.sec \in Security /\ p.ip \in IpSetting /\ p.vpn \in Vpn
  BY ProfileFields, MtuIsNat
<1>3. p.sec.x.identity \in Identities
  BY <1>2 DEF Security
<1>4. "" \in Secrets
  BY DEF Secrets
<1>5. IpLoad(p.ip) \in IpForm /\ VpnLoad(kind, p.vpn) \in VpnForm
  BY <1>2, IpLoadTyped, VpnLoadTyped
<1>6. f \in Form
  BY <1>1, <1>2, <1>3, <1>4, <1>5 DEF Form
<1>7. Loaded(p) = ForType(f, shown)
  BY DEF Loaded, MacShown
<1> HIDE DEF f, shown
<1>8. ForType(f, shown) \in Form
  BY <1>1, <1>6, FormForType
<1>9. Loaded(p) \in Form
  BY <1>7, <1>8
<1> QED BY <1>9

-----------------------------------------------------------------------------
(* NetworkManager and libnm.                                               *)

LEMMA NoSecretsTyped == NoSecrets \in [SecretKeys -> Passwords]
BY DEF NoSecrets, Passwords

LEMMA SentTyped ==
  ASSUME NEW p \in Profile
  PROVE  Sent(p) \in Profile
<1> DEFINE s == WithoutSecrets(p.sec)
           v == VpnWithoutSecrets(p.vpn)
<1>1. p.sec \in Security /\ p.vpn \in Vpn /\ p # Gone
  BY ProfileFields, GoneIsNoProfile
<1>2. s \in Security
  BY <1>1 DEF WithoutSecrets, Security, Secrets
<1>3. v \in Vpn
  <2>1. "" \in PrivateKeys
    BY DEF PrivateKeys
  <2> QED BY <1>1, <2>1, NoSecretsTyped DEF VpnWithoutSecrets, Vpn
<1>4. Sent(p) = [p EXCEPT !.sec = s, !.vpn = v]
  BY <1>1 DEF Sent
<1> HIDE DEF s, v
<1> QED BY <1>2, <1>3, <1>4 DEF Profile

LEMMA KnownTyped ==
  ASSUME stored \in Profile \cup {Gone}
  PROVE  Known \in Profile \cup {Gone}
<1>1. CASE stored = Gone
  BY <1>1 DEF Known, Sent
<1>2. CASE stored \in Profile
  BY <1>2, SentTyped DEF Known
<1> QED BY <1>1, <1>2

LEMMA UpdatedTyped ==
  ASSUME NEW old \in Security, NEW new \in Security
  PROVE  Updated(old, new) \in Security
BY DEF Updated, Security, Secrets

LEMMA VpnUpdatedTyped ==
  ASSUME NEW old \in Vpn, NEW new \in Vpn
  PROVE  VpnUpdated(old, new) \in Vpn
BY DEF VpnUpdated, Vpn

LEMMA MergedTyped ==
  ASSUME NEW old \in Profile, NEW new \in Profile
  PROVE  Merged(old, new) \in Profile
<1> DEFINE s == Updated(old.sec, new.sec)
           v == VpnUpdated(old.vpn, new.vpn)
<1>1. s \in Security /\ v \in Vpn
  BY ProfileFields, UpdatedTyped, VpnUpdatedTyped
<1>2. Merged(old, new) = [new EXCEPT !.sec = s, !.vpn = v]
  BY DEF Merged
<1> HIDE DEF s, v
<1> QED BY <1>1, <1>2 DEF Profile

LEMMA NoVpnTyped == NoVpn \in Vpn
<1> DEFINE data == [k \in DataKeys |-> ""]
<1>1. data \in [DataKeys -> DataValues]
  BY DEF DataValues
<1>2. NoPeer \in Peers
  BY DEF NoPeer, Peers, PublicKeys, Endpoints, AllowedIps, Keepalives
<1>3. "" \in DataValues /\ "" \in PrivateKeys
  BY DEF DataValues, PrivateKeys
<1>4. NoVpn = [data |-> data, user |-> "", secrets |-> NoSecrets, privateKey |-> "",
               peer |-> NoPeer]
  BY DEF NoVpn
<1> HIDE DEF data
<1> QED BY <1>1, <1>2, <1>3, <1>4, NoSecretsTyped DEF Vpn

LEMMA TemplateTyped == Template \in Profile
<1>1. 0 \in MtuSet /\ "" \in MacSet
  BY DEF MtuSet, MacSet
<1> QED BY <1>1, OpenIsCoherent, AutomaticTyped, NoVpnTyped DEF Template, Profile

-----------------------------------------------------------------------------
(* The types of the state.                                                 *)

ProfilesTyped ==
    stored \in Profile \cup {Gone} /\ live \in Profile \cup {Gone} /\ form \in Form

FlagsTyped ==
    /\ kind \in Kinds /\ announced \in BOOLEAN /\ dialog \in {"closed", "shown", "hidden"}
    /\ accepted \in BOOLEAN /\ isNew \in BOOLEAN /\ loaded \in Types /\ keys \in Keys
    /\ dirty \in BOOLEAN /\ touched \in BOOLEAN

\* NetworkManager has answered the first m calls of those waited for, and each of
\* the others may still add a profile: no more of them than clicks on Save.
AnsweredUpTo(m) ==
    /\ \A i \in 1..m : waits[i].answer # "none"
    /\ \A i \in (m + 1)..Len(waits) : waits[i].answer = "none"
    /\ added + (Len(waits) - m) <= saves

WaitsTyped ==
    /\ waits \in Seq(Wait) /\ Len(waits) <= MaxWaits
    /\ dialog = "closed" => waits = <<>>
    /\ added \in Nat /\ saves \in 0..MaxSaves
    /\ \E m \in 0..Len(waits) : AnsweredUpTo(m)

TInv == ProfilesTyped /\ FlagsTyped /\ WaitsTyped

LEMMA MaxIsNat == MaxWaits \in Nat /\ MaxSaves \in Nat
BY EditorAssumption DEF EditorAssumption

LEMMA ForeignTyped == ASSUME kind \in Kinds PROVE Foreign[kind] \subseteq Profile
BY ForeignAssumption

LEMMA NothingWaits ==
  ASSUME waits = <<>>, added = 0, saves = 0
  PROVE  \E m \in 0..Len(waits) : AnsweredUpTo(m)
<1>1. Len(waits) = 0
  BY EmptySeq
<1>2. 0 \in 0..Len(waits)
  BY <1>1
<1>3. \A i \in 1..0 : FALSE
  OBVIOUS
<1>4. \A i \in (0 + 1)..0 : FALSE
  OBVIOUS
<1>5. added + (Len(waits) - 0) <= saves
  BY <1>1
<1>6. AnsweredUpTo(0)
  BY <1>1, <1>3, <1>4, <1>5 DEF AnsweredUpTo
<1> QED BY <1>2, <1>6

LEMMA TypesInit == Init => TInv
<1> SUFFICES ASSUME Init PROVE TInv
  OBVIOUS
<1>1. kind \in Kinds
  BY Zenon DEF Init
<1>2. ProfilesTyped
  <2>1. stored \in Profile \cup {Gone}
    BY <1>1, ForeignTyped DEF Init
  <2>2. live \in Profile \cup {Gone}
    BY <2>1, KnownTyped DEF Init
  <2>3. form \in Form
    BY FormLoaded, TemplateTyped DEF Init
  <2> QED BY <2>1, <2>2, <2>3 DEF ProfilesTyped
<1>3. FlagsTyped
  <2>1. "None" \in Types
    BY DEF Types
  <2>2. keys \in Keys
    BY KeysTyped DEF Init
  <2> QED BY <1>1, <2>1, <2>2 DEF Init, FlagsTyped
<1>4. WaitsTyped
  <2>1. /\ waits = <<>> /\ added = 0 /\ saves = 0
    BY Zenon DEF Init
  <2>2. waits \in Seq(Wait) /\ Len(waits) = 0
    BY <2>1, EmptySeq
  <2> QED BY <2>1, <2>2, NothingWaits, MaxIsNat DEF WaitsTyped
<1> QED BY <1>2, <1>3, <1>4 DEF TInv

LEMMA ProfilesStayTyped ==
  ASSUME IInv, TInv, Next
  PROVE  ProfilesTyped'
<1> USE DEF ProfilesTyped
<1>1. stored \in Profile \cup {Gone} /\ live \in Profile \cup {Gone} /\ form \in Form
  BY DEF TInv
<1>2. kind \in Kinds /\ kind' = kind
  BY DEF TInv, FlagsTyped, Next
<1>3. Known \in Profile \cup {Gone}
  BY <1>1, KnownTyped
<1>4. ASSUME NEW p \in Profile, NEW new, Start(p, new) PROVE ProfilesTyped'
  BY <1>1, <1>4, FormLoaded DEF Start
<1>5. CASE New
  <2>1. Start(Template, TRUE)
    BY <1>5 DEF New
  <2> QED BY <1>4, <2>1, TemplateTyped
<1>6. CASE Edit
  <2>1. Start(live, FALSE) /\ live \in Profile
    BY <1>1, <1>6 DEF Edit
  <2> QED BY <1>4, <2>1
<1>7. CASE TypeField \/ ChooseSecurity \/ TypeCredentials
  <2>1. UNCHANGED <<stored, live>>
    BY <1>7 DEF TypeField, ChooseSecurity, TypeCredentials, Enter
  <2>2. form' \in Form
    <3>1. CASE TypeField
      <4>1. \/ form' = [form EXCEPT !.complete = ~@]
            \/ \E v \in Mtus : form' = [form EXCEPT !.mtu = v]
            \/ \E v \in MacSet : form' = [form EXCEPT !.mac = v]
            \/ \E v \in IpForms[kind] : form' = [form EXCEPT !.ip = v]
            \/ \E v \in VpnForms[kind] : form' = [form EXCEPT !.vpn = v]
        BY <3>1 DEF TypeField, Enter
      <4>2. Mtus \subseteq Nat /\ IpForms[kind] \subseteq IpForm
              /\ VpnForms[kind] \subseteq VpnForm
        BY <1>2, EditorAssumption DEF EditorAssumption
      <4>3. /\ [form EXCEPT !.complete = ~@] \in Form
            /\ \A v \in Nat : [form EXCEPT !.mtu = v] \in Form
            /\ \A v \in MacSet : [form EXCEPT !.mac = v] \in Form
            /\ \A v \in IpForm : [form EXCEPT !.ip = v] \in Form
            /\ \A v \in VpnForm : [form EXCEPT !.vpn = v] \in Form
        BY <1>1 DEF Form
      <4> QED BY <4>1, <4>2, <4>3
    <3>2. CASE ChooseSecurity
      <4>1. PICK type \in OnOffer : form' = ForType(form, type)
        BY <3>2 DEF ChooseSecurity, Enter
      <4> QED BY <1>1, <4>1, FormForType
    <3>3. CASE TypeCredentials
      <4>1. PICK c \in SecForms :
               form' = ForType([form EXCEPT !.identity = c[1], !.secret = c[2]], form.type)
        BY <3>3 DEF TypeCredentials, Enter
      <4>2. c[1] \in Identities /\ c[2] \in Secrets
        BY EditorAssumption DEF EditorAssumption
      <4>3. \A i \in Identities, s \in Secrets :
               [form EXCEPT !.identity = i, !.secret = s] \in Form
        BY <1>1 DEF Form
      <4>4. form.type \in OnOffer
        BY <1>1, FormFields
      <4> QED BY <4>1, <4>2, <4>3, <4>4, FormForType
    <3> QED BY <1>7, <3>1, <3>2, <3>3
  <2> QED BY <1>1, <2>1, <2>2
<1>8. live # Gone => Saved(live, form).profile \in Profile
  BY <1>1, SavedTyped
<1>9. CASE SaveFails
  <2>1. UNCHANGED <<stored, form>>
        /\ (UNCHANGED live \/ (live # Gone /\ live' = Saved(live, form).profile))
    BY <1>9 DEF SaveFails
  <2> QED BY <1>1, <1>8, <2>1
<1>10. CASE SaveCommits
  <2>1. /\ live # Gone /\ live' = Saved(live, form).profile /\ UNCHANGED form
        /\ UNCHANGED stored \/ (stored # Gone /\ stored' = Merged(stored, live'))
    BY <1>10 DEF SaveCommits
  <2>2. live' \in Profile
    BY <1>8, <2>1
  <2>3. stored # Gone => Merged(stored, live') \in Profile
    BY <1>1, <2>2, MergedTyped
  <2> QED BY <1>1, <2>1, <2>2, <2>3
<1>11. CASE SaveAdds
  <2>1. live # Gone
    BY <1>11 DEF SaveAdds, Click, IInv, NewIsThere
  <2>2. live' = Saved(live, form).profile /\ UNCHANGED <<stored, form>>
    BY <1>11 DEF SaveAdds
  <2> QED BY <1>1, <1>8, <2>1, <2>2
<1>12. CASE AddAnswered
  <2>1. PICK i \in DOMAIN waits : stored' = waits[i].profile \/ UNCHANGED stored
    BY <1>12 DEF AddAnswered
  <2>2. waits[i] \in Wait
    BY DEF TInv, WaitsTyped
  <2>3. waits[i].profile \in Profile
    BY <2>2 DEF Wait
  <2>4. UNCHANGED <<live, form>>
    BY <1>12 DEF AddAnswered
  <2> QED BY <1>1, <2>1, <2>3, <2>4
<1>13. CASE WaitEnds
  <2>1. UNCHANGED <<stored, form>> /\ (live' = Known \/ UNCHANGED live)
    BY <1>13 DEF WaitEnds
  <2> QED BY <1>1, <1>3, <2>1
<1>14. CASE Cancel \/ Fetched
  <2>1. UNCHANGED <<stored, form>> /\ (live' = Known \/ UNCHANGED live)
    BY <1>14 DEF Cancel, Fetched
  <2> QED BY <1>1, <1>3, <2>1
<1>15. CASE Elsewhere
  <2>1. UNCHANGED <<live, form>> /\ stored' \in Foreign[kind] \cup {Gone}
    BY <1>15 DEF Elsewhere
  <2> QED BY <1>1, <1>2, <2>1, ForeignTyped
<1> QED BY <1>5, <1>6, <1>7, <1>9, <1>10, <1>11, <1>12, <1>13, <1>14, <1>15 DEF Next, User

LEMMA FlagsStayTyped ==
  ASSUME IInv, TInv, Next
  PROVE  FlagsTyped'
<1>1. /\ kind \in Kinds /\ announced \in BOOLEAN /\ dialog \in {"closed", "shown", "hidden"}
      /\ accepted \in BOOLEAN /\ isNew \in BOOLEAN /\ loaded \in Types /\ keys \in Keys
      /\ dirty \in BOOLEAN /\ touched \in BOOLEAN
  BY DEF TInv, FlagsTyped
<1>2. UNCHANGED kind
  BY DEF Next
<1>3. announced' \in BOOLEAN
  BY <1>1 DEF Next, User, New, Edit, Start, TypeField, ChooseSecurity, TypeCredentials, Enter,
     SaveFails, SaveCommits, SaveAdds, AddAnswered, WaitEnds, Cancel, Elsewhere, Fetched
<1>4. dialog' \in {"closed", "shown", "hidden"}
  BY <1>1 DEF Next, User, New, Edit, Start, TypeField, ChooseSecurity, TypeCredentials, Enter,
     SaveFails, SaveCommits, SaveAdds, AddAnswered, WaitEnds, Cancel, Elsewhere, Fetched
<1>5. accepted' \in BOOLEAN /\ isNew' \in BOOLEAN
  BY <1>1 DEF Next, User, New, Edit, Start, TypeField, ChooseSecurity, TypeCredentials, Enter,
     SaveFails, SaveCommits, SaveAdds, AddAnswered, WaitEnds, Cancel, Elsewhere, Fetched
<1>6. \/ UNCHANGED <<loaded, keys>>
      \/ \E p : loaded' = Detected(p.sec) /\ keys' = KeysOf(kind, p.vpn)
  BY DEF Next, User, New, Edit, Start, TypeField, ChooseSecurity, TypeCredentials, Enter,
     SaveFails, SaveCommits, SaveAdds, AddAnswered, WaitEnds, Cancel, Elsewhere, Fetched
<1>7. loaded' \in Types /\ keys' \in Keys
  BY <1>1, <1>6, DetectedTyped, KeysTyped
<1>8. dirty' \in BOOLEAN
  BY <1>1 DEF Next, User, New, Edit, Start, TypeField, ChooseSecurity, TypeCredentials, Enter,
     SaveFails, SaveCommits, SaveAdds, AddAnswered, WaitEnds, Cancel, Elsewhere, Fetched
<1>9. touched' \in BOOLEAN
  BY <1>1 DEF Next, User, New, Edit, Start, TypeField, ChooseSecurity, TypeCredentials, Enter,
     SaveFails, SaveCommits, SaveAdds, AddAnswered, WaitEnds, Cancel, Elsewhere, Fetched
<1> QED BY <1>1, <1>2, <1>3, <1>4, <1>5, <1>7, <1>8, <1>9 DEF FlagsTyped

-----------------------------------------------------------------------------
(* The calls that wait, and what they may add.                             *)

LEMMA WaitsFacts ==
  ASSUME WaitsTyped
  PROVE  /\ waits \in Seq(Wait) /\ Len(waits) \in Nat /\ DOMAIN waits = 1..Len(waits)
         /\ added \in Nat /\ saves \in Nat /\ saves <= MaxSaves /\ MaxSaves \in Nat
         /\ MaxWaits \in Nat
BY MaxIsNat, LenProperties DEF WaitsTyped

LEMMA WaitsStart ==
  ASSUME TInv, New \/ Edit
  PROVE  WaitsTyped'
<1>1. dialog = "closed" /\ dialog' = "shown" /\ waits' = waits /\ added' = 0 /\ saves' = 0
  BY DEF New, Edit, Start
<1>2. waits = <<>>
  BY <1>1 DEF TInv, WaitsTyped
<1>3. (\E m \in 0..Len(waits) : AnsweredUpTo(m))'
  <2>1. waits' = <<>>
    BY <1>1, <1>2
  <2>2. (waits = <<>> /\ added = 0 /\ saves = 0 => \E m \in 0..Len(waits) : AnsweredUpTo(m))'
    BY NothingWaits, PTL
  <2> QED BY <1>1, <2>1, <2>2
<1> QED BY <1>1, <1>2, <1>3, MaxIsNat DEF TInv, WaitsTyped

\* Another click, without a call.
LEMMA WaitsClicked ==
  ASSUME TInv, LInv, SaveFails \/ SaveCommits
  PROVE  WaitsTyped'
<1>1. /\ saves < MaxSaves /\ saves' = saves + 1 /\ UNCHANGED <<waits, added>>
      /\ dialog = "shown"
  BY DEF SaveFails, SaveCommits, Click
<1>2. /\ waits \in Seq(Wait) /\ Len(waits) \in Nat /\ added \in Nat /\ saves \in Nat
      /\ MaxSaves \in Nat
  BY WaitsFacts DEF TInv
<1>3. dialog' = "closed" => waits = <<>>
  <2>1. CASE SaveFails
    BY <1>1, <2>1 DEF SaveFails
  <2>2. CASE SaveCommits
    <3>1. ~isNew
      BY <2>2 DEF SaveCommits
    <3> QED BY <1>1, <3>1 DEF LInv, WaitsAreNew
  <2> QED BY <2>1, <2>2
<1>4. PICK m \in 0..Len(waits) : AnsweredUpTo(m)
  BY DEF TInv, WaitsTyped
<1>5. AnsweredUpTo(m)'
  <2>1. added + (Len(waits) - m) <= saves + 1
    BY <1>2, <1>4 DEF AnsweredUpTo
  <2> QED BY <1>1, <1>4, <2>1 DEF AnsweredUpTo
<1>6. saves' \in 0..MaxSaves
  BY <1>1, <1>2
<1> QED BY <1>1, <1>3, <1>5, <1>6 DEF TInv, WaitsTyped

\* A call is made: its answer may add a profile, but there was a click.
LEMMA WaitsAppended ==
  ASSUME IInv, TInv, SaveAdds
  PROVE  WaitsTyped'
<1> DEFINE w == [profile |-> live', answer |-> "none"]
           n == Len(waits)
<1>1. /\ saves < MaxSaves /\ saves' = saves + 1 /\ UNCHANGED <<added, dialog>>
      /\ dialog = "shown" /\ waits' = Append(waits, w) /\ n < MaxWaits
      /\ isNew /\ live' = Saved(live, form).profile
  BY DEF SaveAdds, Click
<1>2. /\ waits \in Seq(Wait) /\ n \in Nat /\ added \in Nat /\ saves \in Nat
      /\ MaxSaves \in Nat /\ MaxWaits \in Nat
  BY WaitsFacts DEF TInv
<1>3. live \in Profile /\ form \in Form
  BY <1>1 DEF IInv, NewIsThere, TInv, ProfilesTyped
<1>4. live' \in Profile
  BY <1>1, <1>3, SavedTyped
<1>5. w \in Wait /\ w.answer = "none"
  BY <1>4 DEF Wait
<1> HIDE DEF w, n
<1>6. /\ waits' \in Seq(Wait) /\ Len(waits') = n + 1
      /\ \A i \in 1..n : waits'[i] = waits[i]
      /\ waits'[n + 1] = w
  BY <1>1, <1>2, <1>5, AppendProperties DEF n
<1>7. PICK m \in 0..n : AnsweredUpTo(m)
  BY DEF TInv, WaitsTyped, n
<1>8. AnsweredUpTo(m)'
  <2>1. ASSUME NEW i \in 1..m PROVE waits'[i].answer # "none"
    <3>1. i \in 1..n
      BY <1>2
    <3> QED BY <1>6, <1>7, <3>1 DEF AnsweredUpTo
  <2>2. ASSUME NEW i \in (m + 1)..Len(waits') PROVE waits'[i].answer = "none"
    <3>1. i \in (m + 1)..n \/ i = n + 1
      BY <1>2, <1>6
    <3>2. CASE i = n + 1
      BY <1>5, <1>6, <3>2
    <3>3. CASE i \in (m + 1)..n
      <4>1. i \in 1..n
        BY <1>2, <3>3
      <4> QED BY <1>6, <1>7, <3>3, <4>1 DEF AnsweredUpTo, n
    <3> QED BY <3>1, <3>2, <3>3
  <2>3. added + (n - m) <= saves
    BY <1>7 DEF AnsweredUpTo, n
  <2>4. added' + (Len(waits') - m) <= saves'
    BY <1>1, <1>2, <1>6, <2>3
  <2> QED BY <2>1, <2>2, <2>4 DEF AnsweredUpTo
<1>9. m \in 0..Len(waits') /\ saves' \in 0..MaxSaves /\ Len(waits') <= MaxWaits
  BY <1>1, <1>2, <1>6
<1> QED BY <1>1, <1>2, <1>6, <1>8, <1>9 DEF WaitsTyped

\* The answers come in the order of the calls.
LEMMA WaitsAnswered ==
  ASSUME TInv, AddAnswered
  PROVE  WaitsTyped'
<1> DEFINE n == Len(waits)
<1>1. PICK i \in DOMAIN waits, a \in {"added", "refused"} :
         /\ waits[i].answer = "none"
         /\ \A j \in 1..(i - 1) : waits[j].answer # "none"
         /\ waits' = [waits EXCEPT ![i].answer = a]
         /\ added' = IF a = "added" THEN added + 1 ELSE added
  BY DEF AddAnswered
<1>2. UNCHANGED <<saves, dialog>>
  BY DEF AddAnswered
<1>3. /\ waits \in Seq(Wait) /\ n \in Nat /\ DOMAIN waits = 1..n /\ added \in Nat
      /\ saves \in Nat /\ MaxSaves \in Nat /\ MaxWaits \in Nat
  BY WaitsFacts DEF TInv
<1> DEFINE w == [waits[i] EXCEPT !.answer = a]
<1>4. waits[i] \in Wait /\ i \in 1..n
  BY <1>1, <1>3
<1>5. w \in Wait /\ w.answer = a
  BY <1>4 DEF Wait
<1>6. waits' = [waits EXCEPT ![i] = w]
  BY <1>1
<1> HIDE DEF w, n
<1>7. /\ waits' \in Seq(Wait) /\ Len(waits') = n
      /\ \A j \in 1..n : waits'[j] = IF j = i THEN w ELSE waits[j]
  BY <1>3, <1>4, <1>5, <1>6, ExceptSeq DEF n
<1>8. PICK m \in 0..n : AnsweredUpTo(m)
  BY DEF TInv, WaitsTyped, n
<1>9. i = m + 1
  <2>1. ~(i \in 1..m)
    BY <1>1, <1>8 DEF AnsweredUpTo
  <2>2. m + 1 \in (m + 1)..n => m + 1 \notin 1..(i - 1)
    BY <1>1, <1>8 DEF AnsweredUpTo, n
  <2> QED BY <1>3, <1>4, <2>1, <2>2
<1>10. AnsweredUpTo(m + 1)'
  <2>1. ASSUME NEW j \in 1..(m + 1) PROVE waits'[j].answer # "none"
    <3>1. j \in 1..n /\ (j = i \/ j \in 1..m)
      BY <1>3, <1>4, <1>9
    <3>2. j \in 1..m => waits[j].answer # "none"
      BY <1>8 DEF AnsweredUpTo
    <3>3. a # "none"
      OBVIOUS
    <3> QED BY <1>5, <1>7, <3>1, <3>2, <3>3
  <2>2. ASSUME NEW j \in (m + 1 + 1)..n PROVE waits'[j].answer = "none"
    <3>1. j \in 1..n /\ j # i /\ j \in (m + 1)..n
      BY <1>3, <1>9
    <3>2. waits[j].answer = "none"
      BY <1>8, <3>1 DEF AnsweredUpTo, n
    <3> QED BY <1>7, <3>1, <3>2
  <2>3. added + (n - m) <= saves
    BY <1>8 DEF AnsweredUpTo, n
  <2>4. added' + (n - (m + 1)) <= saves
    BY <1>1, <1>3, <2>3
  <2> QED BY <1>2, <1>7, <2>1, <2>2, <2>4 DEF AnsweredUpTo
<1>11. m + 1 \in 0..n
  BY <1>3, <1>4, <1>9
<1>12. added' \in Nat
  BY <1>1, <1>3
<1>13. dialog # "closed"
  <2>1. waits # <<>>
    BY <1>3, <1>4, EmptySeq DEF n
  <2> QED BY <2>1 DEF TInv, WaitsTyped
<1>14. n <= MaxWaits /\ saves \in 0..MaxSaves
  BY DEF TInv, WaitsTyped, n
<1> QED BY <1>2, <1>7, <1>10, <1>11, <1>12, <1>13, <1>14 DEF WaitsTyped

\* The innermost call has been answered, and so have all.
LEMMA WaitsPopped ==
  ASSUME TInv, WaitEnds
  PROVE  WaitsTyped'
<1> DEFINE n == Len(waits)
           outer == SubSeq(waits, 1, n - 1)
           closes == waits[n].answer = "added" \/ dialog = "hidden"
<1>1. /\ waits # <<>> /\ waits[n].answer # "none" /\ waits' = outer
      /\ dialog' = CASE closes /\ outer = <<>> -> "closed"
                     [] closes /\ outer # <<>> -> "hidden"
                     [] OTHER -> dialog
      /\ UNCHANGED <<added, saves>>
  BY DEF WaitEnds, Answered
<1>2. /\ waits \in Seq(Wait) /\ n \in Nat /\ added \in Nat /\ saves \in Nat
      /\ MaxSaves \in Nat /\ MaxWaits \in Nat
  BY WaitsFacts DEF TInv
<1>3. n # 0
  BY <1>1, <1>2, EmptySeq
<1>4. outer \in Seq(Wait) /\ Len(outer) = n - 1 /\ \A i \in 1..(n - 1) : outer[i] = waits[i]
  <2>1. \A i \in 1..(n - 1) : waits[i] \in Wait
    BY <1>2, <1>3, ElementOfSeq
  <2>2. n - 1 \in Int /\ 1 \in Int
    BY <1>3
  <2>3. /\ outer \in Seq(Wait)
        /\ Len(outer) = IF 1 <= n - 1 THEN n - 1 - 1 + 1 ELSE 0
        /\ \A i \in 1..(n - 1 - 1 + 1) : outer[i] = waits[1 + i - 1]
    BY <2>1, <2>2, SubSeqProperties
  <2> HIDE DEF outer, n
  <2> QED BY <1>2, <1>3, <2>3
<1> HIDE DEF outer, n
<1>5. PICK m \in 0..n : AnsweredUpTo(m)
  BY DEF TInv, WaitsTyped, n
<1>6. m = n
  <2>1. ~(n \in (m + 1)..n)
    BY <1>1, <1>5 DEF AnsweredUpTo, n
  <2> QED BY <1>2, <1>3, <2>1
<1>7. AnsweredUpTo(m - 1)'
  <2>1. ASSUME NEW i \in 1..(m - 1) PROVE waits'[i].answer # "none"
    <3>1. i \in 1..m /\ i \in 1..(n - 1)
      BY <1>2, <1>3, <1>6
    <3> QED BY <1>1, <1>4, <1>5, <3>1 DEF AnsweredUpTo
  <2>2. \A i \in (m - 1 + 1)..(n - 1) : FALSE
    BY <1>2, <1>6
  <2>3. added + (n - m) <= saves
    BY <1>5 DEF AnsweredUpTo, n
  <2>4. added + (n - 1 - (m - 1)) <= saves
    BY <1>2, <1>6, <2>3
  <2> QED BY <1>1, <1>4, <2>1, <2>2, <2>4 DEF AnsweredUpTo
<1>8. m - 1 \in 0..(n - 1) /\ n - 1 <= MaxWaits
  <2>1. n <= MaxWaits
    BY DEF TInv, WaitsTyped, n
  <2> QED BY <1>2, <1>3, <1>6, <2>1
<1>9. dialog' = "closed" => outer = <<>>
  <2>1. dialog # "closed"
    BY <1>1 DEF TInv, WaitsTyped
  <2> QED BY <1>1, <2>1
<1>10. saves' \in 0..MaxSaves
  BY <1>1 DEF TInv, WaitsTyped
<1> QED BY <1>1, <1>2, <1>4, <1>7, <1>8, <1>9, <1>10 DEF WaitsTyped

LEMMA WaitsUntouched ==
  ASSUME TInv, UNCHANGED <<waits, added, saves>>, dialog' = "closed" => waits = <<>>
  PROVE  WaitsTyped'
<1>1. PICK m \in 0..Len(waits) : AnsweredUpTo(m)
  BY DEF TInv, WaitsTyped
<1>2. AnsweredUpTo(m)'
  BY <1>1 DEF AnsweredUpTo
<1> QED BY <1>2 DEF TInv, WaitsTyped

LEMMA WaitsStayTyped ==
  ASSUME IInv, LInv, TInv, Next
  PROVE  WaitsTyped'
<1>1. CASE TypeField \/ ChooseSecurity \/ TypeCredentials \/ Elsewhere \/ Fetched \/ Cancel
  <2>1. UNCHANGED <<waits, added, saves>>
    BY <1>1 DEF TypeField, ChooseSecurity, TypeCredentials, Enter, Elsewhere, Fetched, Cancel
  <2>2. dialog' = "closed" => dialog = "closed" \/ waits = <<>>
    BY <1>1 DEF TypeField, ChooseSecurity, TypeCredentials, Enter, Elsewhere, Fetched, Cancel
  <2> QED BY <2>1, <2>2, WaitsUntouched DEF TInv, WaitsTyped
<1> QED BY <1>1, WaitsStart, WaitsClicked, WaitsAppended, WaitsAnswered, WaitsPopped
    DEF Next, User

LEMMA TypesInductive == IInv /\ LInv /\ TInv /\ [Next]_vars => TInv'
<1> SUFFICES ASSUME IInv, LInv, TInv, [Next]_vars PROVE TInv'
  OBVIOUS
<1>1. CASE UNCHANGED vars
  <2>1. ProfilesTyped'
    BY <1>1 DEF vars, TInv, ProfilesTyped
  <2>2. FlagsTyped'
    BY <1>1 DEF vars, TInv, FlagsTyped
  <2>3. WaitsTyped'
    <3>1. UNCHANGED <<waits, added, saves, dialog>>
      BY <1>1 DEF vars
    <3> QED BY <3>1, WaitsUntouched DEF TInv, WaitsTyped
  <2> QED BY <2>1, <2>2, <2>3 DEF TInv
<1>2. CASE Next
  BY <1>2, ProfilesStayTyped, FlagsStayTyped, WaitsStayTyped DEF TInv
<1> QED BY <1>1, <1>2

\* However the saves fail, the waits nest and other programs interfere, every profile,
\* every field and every call keeps its type; the dialog of a profile never waits
\* closed; and NetworkManager never adds more profiles for a dialog than there were
\* clicks on Save (saveProfile, addConnectionProfile).
THEOREM Typing == Spec => []TypeOK
<1>1. TInv => TypeOK
  <2> SUFFICES ASSUME TInv PROVE TypeOK
    OBVIOUS
  <2>1. PICK m \in 0..Len(waits) : AnsweredUpTo(m)
    BY DEF TInv, WaitsTyped
  <2>2. added \in 0..MaxSaves
    <3>1. /\ Len(waits) \in Nat /\ added \in Nat /\ saves \in Nat /\ saves <= MaxSaves
          /\ MaxSaves \in Nat
      BY WaitsFacts DEF TInv
    <3>2. added + (Len(waits) - m) <= saves
      BY <2>1 DEF AnsweredUpTo
    <3> QED BY <3>1, <3>2
  <2> QED BY <2>2 DEF TInv, ProfilesTyped, FlagsTyped, WaitsTyped, TypeOK
<1> QED BY InitEstablishes, Inductive, ReportsInit, ReportsInductive, TypesInit, TypesInductive,
        <1>1, PTL DEF Spec

-----------------------------------------------------------------------------
(* What the dialog has loaded.                                             *)

\* The object of a profile is what NetworkManager has, unless an attempt has failed or
\* a change has yet to be fetched.
LiveFollows ==
    (dialog = "closed" \/ (dialog = "shown" /\ ~isNew)) /\ Fresh => live = Known

\* The dialog shows the object it has loaded.
FormFollows ==
    dialog = "shown" /\ ~isNew /\ ~dirty =>
        /\ live # Gone
        /\ loaded = Detected(live.sec) /\ keys = KeysOf(kind, live.vpn)
        /\ ~touched => form.type = Loaded(live).type /\ form.identity = Loaded(live).identity

\* A field that the type has no use for is empty.
FormClean ==
    /\ ~NeedsIdentity(form.type) => form.identity = ""
    /\ ~NeedsSecret(form.type) => form.secret = ""
    /\ kind \notin PluginKinds => form.vpn.password = ""

FInv == LiveFollows /\ FormFollows /\ FormClean

LEMMA ForTypeFields ==
  ASSUME NEW f \in Form, NEW type
  PROVE  /\ ForType(f, type).type = type /\ ForType(f, type).vpn = f.vpn
         /\ ForType(f, type).identity = IF NeedsIdentity(type) THEN f.identity ELSE ""
         /\ ForType(f, type).secret = IF NeedsSecret(type) THEN f.secret ELSE ""
         /\ ForType(f, type).mtu = f.mtu /\ ForType(f, type).mac = f.mac
         /\ ForType(f, type).ip = f.ip
<1> DEFINE identity == IF NeedsIdentity(type) THEN f.identity ELSE ""
           secret == IF NeedsSecret(type) THEN f.secret ELSE ""
<1>1. ForType(f, type) =
        [f EXCEPT !.type = type, !.identity = identity, !.secret = secret]
  BY DEF ForType
<1> HIDE DEF identity, secret
<1>2. /\ ForType(f, type).type = type /\ ForType(f, type).vpn = f.vpn
      /\ ForType(f, type).identity = identity /\ ForType(f, type).secret = secret
      /\ ForType(f, type).mtu = f.mtu /\ ForType(f, type).mac = f.mac
      /\ ForType(f, type).ip = f.ip
  BY <1>1 DEF Form
<1> QED BY <1>2 DEF identity, secret

\* The fields of a profile that the dialog shows.
LEMMA LoadedFields ==
  ASSUME NEW p \in Profile
  PROVE  /\ Loaded(p).mtu = p.mtu /\ Loaded(p).mac = MacShown(p) /\ Loaded(p).ip = IpLoad(p.ip)
         /\ Loaded(p).vpn = VpnLoad(kind, p.vpn)
         /\ Loaded(p).type = IF Detected(p.sec) \in OnOffer THEN Detected(p.sec) ELSE "None"
         /\ Loaded(p).identity = IF NeedsIdentity(Loaded(p).type) THEN p.sec.x.identity ELSE ""
         /\ Loaded(p).secret = ""
<1> DEFINE shown == IF Detected(p.sec) \in OnOffer THEN Detected(p.sec) ELSE "None"
           f == [complete |-> TRUE, mtu |-> p.mtu, mac |-> MacShown(p), type |-> "None",
                 identity |-> p.sec.x.identity, secret |-> "", ip |-> IpLoad(p.ip),
                 vpn |-> VpnLoad(kind, p.vpn)]
<1>1. "None" \in OnOffer
  BY OnOfferTypes
<1>2. /\ p.mtu \in Nat /\ MacShown(p) \in MacSet /\ p.sec \in Security /\ p.ip \in IpSetting
      /\ p.vpn \in Vpn
  BY ProfileFields, MtuIsNat
<1>3. p.sec.x.identity \in Identities
  BY <1>2 DEF Security
<1>4. "" \in Secrets
  BY DEF Secrets
<1>5. IpLoad(p.ip) \in IpForm /\ VpnLoad(kind, p.vpn) \in VpnForm
  BY <1>2, IpLoadTyped, VpnLoadTyped
<1>6. f \in Form
  BY <1>1, <1>2, <1>3, <1>4, <1>5 DEF Form
<1>7. /\ f.mtu = p.mtu /\ f.mac = MacShown(p) /\ f.ip = IpLoad(p.ip) /\ f.vpn = VpnLoad(kind, p.vpn)
      /\ f.identity = p.sec.x.identity /\ f.secret = ""
  OBVIOUS
<1>8. Loaded(p) = ForType(f, shown)
  BY DEF Loaded, MacShown
<1> HIDE DEF f, shown
<1>9. /\ Loaded(p).type = shown /\ Loaded(p).vpn = f.vpn
      /\ Loaded(p).identity = IF NeedsIdentity(shown) THEN f.identity ELSE ""
      /\ Loaded(p).secret = IF NeedsSecret(shown) THEN f.secret ELSE ""
      /\ Loaded(p).mtu = f.mtu /\ Loaded(p).mac = f.mac /\ Loaded(p).ip = f.ip
  <2> DEFINE g == ForType(f, shown)
  <2>1. /\ g.type = shown /\ g.vpn = f.vpn
        /\ g.identity = IF NeedsIdentity(shown) THEN f.identity ELSE ""
        /\ g.secret = IF NeedsSecret(shown) THEN f.secret ELSE ""
        /\ g.mtu = f.mtu /\ g.mac = f.mac /\ g.ip = f.ip
    BY <1>6, ForTypeFields
  <2>2. Loaded(p) = g
    BY <1>8
  <2> HIDE DEF g
  <2> QED BY <2>1, <2>2
<1>10. Loaded(p).secret = "" /\ Loaded(p).identity = IF NeedsIdentity(Loaded(p).type)
                                                    THEN p.sec.x.identity ELSE ""
  BY <1>7, <1>9
<1> QED BY <1>7, <1>9, <1>10 DEF shown

LEMMA NoPasswordLoaded == ASSUME NEW k, NEW v PROVE VpnLoad(k, v).password = ""
<1>1. CASE k \in PluginKinds
  BY <1>1 DEF VpnLoad, NoVpnForm
<1>2. CASE k \notin PluginKinds
  BY <1>2 DEF VpnLoad, NoVpnForm
<1> QED BY <1>1, <1>2

LEMMA LoadedIsClean ==
  ASSUME NEW p \in Profile
  PROVE  /\ ~NeedsIdentity(Loaded(p).type) => Loaded(p).identity = ""
         /\ Loaded(p).secret = "" /\ Loaded(p).vpn.password = ""
<1>1. Loaded(p).vpn = VpnLoad(kind, p.vpn) /\ Loaded(p).secret = ""
  BY LoadedFields
<1>2. Loaded(p).identity = IF NeedsIdentity(Loaded(p).type) THEN p.sec.x.identity ELSE ""
  BY LoadedFields
<1>3. VpnLoad(kind, p.vpn).password = ""
  BY NoPasswordLoaded
<1> QED BY <1>1, <1>2, <1>3

LEMMA FollowsInit == Init => FInv
<1> SUFFICES ASSUME Init PROVE FInv
  OBVIOUS
<1>1. live = Known /\ dialog = "closed" /\ form = Loaded(Template)
  BY Zenon DEF Init
<1> QED BY <1>1, TemplateTyped, LoadedIsClean DEF FInv, LiveFollows, FormFollows, FormClean

\* A dialog opens on what it loads.
LEMMA FollowsStart ==
  ASSUME TInv, FInv, UNCHANGED kind, New \/ Edit
  PROVE  FInv'
<1>1. CASE New
  <2>1. dialog' = "shown" /\ isNew' = TRUE /\ form' = Loaded(Template)
    BY <1>1 DEF New, Start
  <2> QED BY <2>1, TemplateTyped, LoadedIsClean DEF FInv, LiveFollows, FormFollows, FormClean
<1>2. CASE Edit
  <2>1. /\ dialog = "closed" /\ dialog' = "shown" /\ live # Gone /\ isNew' = FALSE
        /\ UNCHANGED <<live, stored, dirty, announced>> /\ form' = Loaded(live)
        /\ loaded' = Detected(live.sec) /\ keys' = KeysOf(kind, live.vpn)
    BY <1>2 DEF Edit, Start
  <2>2. live \in Profile
    BY <2>1 DEF TInv, ProfilesTyped
  <2>3. LiveFollows'
    BY <2>1 DEF FInv, LiveFollows, Fresh, Known
  <2>4. Loaded(live)' = Loaded(live)
    BY <2>1 DEF Loaded
  <2>5. FormFollows'
    BY <2>1, <2>4 DEF FormFollows
  <2>6. FormClean'
    BY <2>1, <2>2, LoadedIsClean DEF FormClean
  <2> QED BY <2>3, <2>5, <2>6 DEF FInv
<1> QED BY <1>1, <1>2

\* The user types.
LEMMA FollowsTyping ==
  ASSUME TInv, FInv, UNCHANGED kind, TypeField \/ ChooseSecurity \/ TypeCredentials
  PROVE  FInv'
<1>1. UNCHANGED <<stored, live, announced, dialog, isNew, loaded, keys, dirty>>
  BY DEF TypeField, ChooseSecurity, TypeCredentials, Enter
<1>2. LiveFollows'
  BY <1>1 DEF FInv, LiveFollows, Fresh, Known
<1>3. form \in Form
  BY DEF TInv, ProfilesTyped
<1>4. Loaded(live)' = Loaded(live)
  BY <1>1 DEF Loaded
<1>5. FormFollows' /\ FormClean'
  <2>1. CASE TypeField
    <3>1. \/ form' = [form EXCEPT !.complete = ~@]
          \/ \E v : form' = [form EXCEPT !.mtu = v]
          \/ \E v : form' = [form EXCEPT !.mac = v]
          \/ \E v : form' = [form EXCEPT !.ip = v]
          \/ \E v \in VpnForms[kind] : form' = [form EXCEPT !.vpn = v]
      BY <2>1 DEF TypeField, Enter
    <3>2. /\ form'.type = form.type /\ form'.identity = form.identity
          /\ form'.secret = form.secret
          /\ form'.vpn = form.vpn \/ form'.vpn \in VpnForms[kind]
      <4>1. CASE form' = [form EXCEPT !.complete = ~@]
        BY <1>3, <4>1 DEF Form
      <4>2. CASE \E v : form' = [form EXCEPT !.mtu = v]
        BY <1>3, <4>2 DEF Form
      <4>3. CASE \E v : form' = [form EXCEPT !.mac = v]
        BY <1>3, <4>3 DEF Form
      <4>4. CASE \E v : form' = [form EXCEPT !.ip = v]
        BY <1>3, <4>4 DEF Form
      <4>5. CASE \E v \in VpnForms[kind] : form' = [form EXCEPT !.vpn = v]
        BY <1>3, <4>5 DEF Form
      <4> QED BY <3>1, <4>1, <4>2, <4>3, <4>4, <4>5
    <3>3. kind \notin PluginKinds => \A f \in VpnForms[kind] : f.password = ""
      BY EditorAssumption DEF EditorAssumption, TInv, FlagsTyped
    <3>4. UNCHANGED touched
      BY <2>1 DEF TypeField
    <3>5. FormFollows'
      BY <1>1, <1>4, <3>2, <3>4 DEF FInv, FormFollows
    <3>6. FormClean'
      BY <3>2, <3>3 DEF FInv, FormClean
    <3> QED BY <3>5, <3>6
  <2>2. CASE ChooseSecurity
    <3>1. PICK type \in OnOffer : form' = ForType(form, type)
      BY <2>2 DEF ChooseSecurity, Enter
    <3>2. touched' = TRUE
      BY <2>2 DEF ChooseSecurity
    <3>3. FormFollows'
      BY <1>1, <3>2 DEF FInv, FormFollows
    <3>4. /\ form'.type = type /\ form'.vpn = form.vpn
          /\ form'.identity = IF NeedsIdentity(type) THEN form.identity ELSE ""
          /\ form'.secret = IF NeedsSecret(type) THEN form.secret ELSE ""
      BY <1>3, <3>1, ForTypeFields
    <3>5. FormClean'
      BY <3>4 DEF FInv, FormClean
    <3> QED BY <3>3, <3>5
  <2>3. CASE TypeCredentials
    <3>1. PICK c \in SecForms :
             form' = ForType([form EXCEPT !.identity = c[1], !.secret = c[2]], form.type)
      BY <2>3 DEF TypeCredentials, Enter
    <3>2. c[1] \in Identities /\ c[2] \in Secrets
      BY EditorAssumption DEF EditorAssumption
    <3> DEFINE F(i, s) == [form EXCEPT !.identity = i, !.secret = s]
               f == F(c[1], c[2])
    <3>3. \A i \in Identities, s \in Secrets : F(i, s) \in Form /\ F(i, s).vpn = form.vpn
      BY <1>3 DEF Form
    <3>4. f \in Form /\ f.vpn = form.vpn
      BY <3>2, <3>3
    <3>5. form' = ForType(f, form.type)
      BY <3>1
    <3> HIDE DEF f
    <3>6. /\ form'.type = form.type /\ form'.vpn = form.vpn
          /\ form'.identity = IF NeedsIdentity(form.type) THEN f.identity ELSE ""
          /\ form'.secret = IF NeedsSecret(form.type) THEN f.secret ELSE ""
      BY <3>4, <3>5, ForTypeFields
    <3>7. touched' = (touched \/ form'.identity # form.identity)
      BY <2>3 DEF TypeCredentials
    <3>8. FormFollows'
      BY <1>1, <1>4, <3>6, <3>7 DEF FInv, FormFollows
    <3>9. FormClean'
      BY <3>6 DEF FInv, FormClean
    <3> QED BY <3>8, <3>9
  <2> QED BY <2>1, <2>2, <2>3
<1> QED BY <1>2, <1>5 DEF FInv

\* A save that fails or a commit that is refused may leave the object changed.
LEMMA FollowsSaving ==
  ASSUME FInv, UNCHANGED kind, SaveFails \/ SaveCommits \/ SaveAdds
  PROVE  FInv'
<1>1. UNCHANGED <<form, isNew, loaded, keys, touched>> /\ dialog = "shown"
  BY DEF SaveFails, SaveCommits, SaveAdds, Click
<1>2. FormClean'
  BY <1>1 DEF FInv, FormClean
<1>3. CASE SaveFails
  <2>1. UNCHANGED <<stored, announced, dialog>>
    BY <1>3 DEF SaveFails
  <2>2. ~dirty' => ~dirty /\ UNCHANGED live
    BY <1>3 DEF SaveFails
  <2>3. LiveFollows'
    BY <1>1, <2>1, <2>2 DEF FInv, LiveFollows, Fresh, Known
  <2>4. FormFollows'
    <3>1. UNCHANGED live => Loaded(live)' = Loaded(live)
      BY DEF Loaded
    <3> QED BY <1>1, <2>1, <2>2, <3>1 DEF FInv, FormFollows
  <2> QED BY <1>2, <2>3, <2>4 DEF FInv
<1>4. CASE SaveCommits
  <2>1. (announced' = TRUE /\ dialog' = "closed") \/ dirty' = TRUE
    BY <1>4 DEF SaveCommits
  <2> QED BY <1>2, <2>1 DEF FInv, LiveFollows, FormFollows, Fresh
<1>5. CASE SaveAdds
  <2>1. isNew' /\ dialog' = "shown"
    BY <1>1, <1>5 DEF SaveAdds
  <2> QED BY <1>2, <2>1 DEF FInv, LiveFollows, FormFollows
<1> QED BY <1>3, <1>4, <1>5

\* While a dialog waits it is a new profile's or hidden.
LEMMA FollowsWaiting ==
  ASSUME LInv, TInv, FInv, UNCHANGED kind, AddAnswered \/ WaitEnds
  PROVE  FInv'
<1>1. UNCHANGED <<form, loaded, keys, touched, dirty, announced>>
  BY DEF AddAnswered, WaitEnds
<1>2. waits # <<>>
  <2>1. CASE AddAnswered
    <3>1. waits \in Seq(Wait) /\ \E i \in DOMAIN waits : TRUE
      BY <2>1 DEF AddAnswered, TInv, WaitsTyped
    <3> QED BY <3>1
  <2>2. CASE WaitEnds
    BY <2>2 DEF WaitEnds
  <2> QED BY <2>1, <2>2
<1>3. dialog # "closed" /\ (dialog = "shown" => isNew)
  BY <1>2 DEF LInv, WaitsAreNew
<1>4. FormClean'
  BY <1>1 DEF FInv, FormClean
<1>5. CASE AddAnswered
  <2>1. UNCHANGED <<dialog, isNew>>
    BY <1>5 DEF AddAnswered
  <2> QED BY <1>3, <1>4, <2>1 DEF FInv, LiveFollows, FormFollows
<1>6. CASE WaitEnds
  <2> DEFINE last == waits[Len(waits)]
             outer == SubSeq(waits, 1, Len(waits) - 1)
             closes == last.answer = "added" \/ dialog = "hidden"
  <2>1. /\ dialog' = CASE closes /\ outer = <<>> -> "closed"
                       [] closes /\ outer # <<>> -> "hidden"
                       [] OTHER -> dialog
        /\ isNew' = (isNew /\ last.answer # "added")
        /\ live' = IF closes /\ outer = <<>> THEN Known ELSE live
        /\ UNCHANGED stored
    BY <1>6 DEF WaitEnds
  <2>2. UNCHANGED Known
    BY <2>1 DEF Known
  <2> HIDE DEF last, outer
  <2>3. CASE closes
    <3>1. dialog' # "shown" /\ (dialog' = "closed" => live' = Known)
      BY <2>1, <2>3
    <3> QED BY <1>4, <2>2, <3>1 DEF FInv, LiveFollows, FormFollows
  <2>4. CASE ~closes
    <3>1. dialog' = dialog /\ (dialog = "shown" => isNew') /\ dialog # "closed"
      BY <1>3, <2>1, <2>4
    <3> QED BY <1>4, <3>1 DEF FInv, LiveFollows, FormFollows
  <2> QED BY <2>3, <2>4
<1> QED BY <1>5, <1>6

LEMMA FollowsOthers ==
  ASSUME FInv, TInv, UNCHANGED kind, Cancel \/ Elsewhere \/ Fetched
  PROVE  FInv'
<1>1. UNCHANGED <<form, isNew, loaded, keys, touched>>
  BY DEF Cancel, Elsewhere, Fetched
<1>2. FormClean'
  BY <1>1 DEF FInv, FormClean
<1>3. CASE Cancel
  <2>1. /\ dialog = "shown" /\ dialog' # "shown" /\ UNCHANGED <<stored, announced, dirty>>
        /\ dialog' = "closed" /\ isNew => live' = Known
        /\ ~isNew => UNCHANGED live
    BY <1>3 DEF Cancel
  <2>2. UNCHANGED Known
    BY <2>1 DEF Known
  <2>3. LiveFollows'
    BY <1>1, <2>1, <2>2 DEF FInv, LiveFollows, Fresh
  <2> QED BY <1>2, <2>1, <2>3 DEF FInv, FormFollows
<1>4. CASE Elsewhere
  <2>1. announced' = TRUE /\ UNCHANGED <<live, dialog, dirty>>
    BY <1>4 DEF Elsewhere
  <2>2. Loaded(live)' = Loaded(live)
    BY <2>1 DEF Loaded
  <2> QED BY <1>1, <1>2, <2>1, <2>2 DEF FInv, LiveFollows, FormFollows, Fresh
<1>5. CASE Fetched
  <2>1. /\ UNCHANGED <<stored, dialog>> /\ dirty' = (dialog # "closed")
        /\ ~isNew \/ dialog = "closed" => live' = Known
    BY <1>5 DEF Fetched
  <2>2. UNCHANGED Known
    BY <2>1 DEF Known
  <2> QED BY <1>1, <1>2, <2>1, <2>2 DEF FInv, LiveFollows, FormFollows
<1> QED BY <1>3, <1>4, <1>5

LEMMA FollowsInductive == IInv /\ LInv /\ TInv /\ FInv /\ [Next]_vars => FInv'
<1> SUFFICES ASSUME IInv, LInv, TInv, FInv, [Next]_vars PROVE FInv'
  OBVIOUS
<1>1. CASE UNCHANGED vars
  <2>1. UNCHANGED <<kind, stored, live, announced, dialog, isNew, loaded, keys, form, dirty,
                    touched>>
    BY <1>1 DEF vars
  <2>2. Loaded(live)' = Loaded(live) /\ UNCHANGED Known
    BY <2>1 DEF Loaded, Known
  <2> QED BY <2>1, <2>2 DEF FInv, LiveFollows, FormFollows, FormClean, Fresh
<1>2. CASE Next
  BY <1>2, FollowsStart, FollowsTyping, FollowsSaving, FollowsWaiting, FollowsOthers
  DEF Next, User
<1> QED BY <1>1, <1>2

-----------------------------------------------------------------------------
(* What a save writes.                                                     *)

LEMMA IpShown ==
  ASSUME NEW s \in IpSetting, NEW f \in IpForm, IpApply(s, f).ok
  PROVE  /\ IpLoad(IpApply(s, f).ip).manual = f.manual
         /\ f.manual => IpLoad(IpApply(s, f).ip).address = f.address
<1>1. CASE ~f.manual
  <2>1. IpApply(s, f).ip = Automatic
    BY <1>1, IpMadeAutomatic
  <2>2. IpLoad(Automatic).manual = FALSE
    BY DEF IpLoad, Automatic
  <2>3. f.manual = FALSE
    BY <1>1, IpFormFields
  <2> QED BY <1>1, <2>1, <2>2, <2>3
<1>2. CASE f.manual
  <2>1. ~IpRefusedEarly(f) /\ f.address # "bad"
    BY <1>2 DEF IpApply
  <2> DEFINE prefix == IF NetmaskValid(f.netmask) THEN PrefixOf(f.netmask) ELSE DefaultPrefix
             first == [ip |-> f.address, prefix |-> prefix]
             ip == [method |-> "manual", addresses |-> <<first>>, gateway |-> f.gateway,
                    dns |-> f.dns]
  <2>2. IpApply(s, f).ip = ip
    BY <1>2, <2>1 DEF IpApply, Addressed
  <2>3. ip.method = "manual" /\ ip.addresses = <<first>>
    OBVIOUS
  <2>4. first.ip = f.address
    OBVIOUS
  <2>5. <<first>> # <<>> /\ <<first>>[1] = first
    OBVIOUS
  <2> HIDE DEF ip, first
  <2>6. IpLoad(ip).manual = TRUE /\ IpLoad(ip).address = f.address
    BY <2>3, <2>4, <2>5 DEF IpLoad
  <2>7. f.manual = TRUE
    BY <1>2, IpFormFields
  <2> QED BY <2>2, <2>6, <2>7
<1> QED BY <1>1, <1>2

LEMMA SavedIp ==
  ASSUME NEW p \in Profile, NEW f, SaveIp(p, f).ok
  PROVE  /\ IpApply(p.ip, f.ip).ok
         /\ SaveIp(p, f).profile.ip = IpApply(p.ip, f.ip).ip
         /\ SaveIp(p, f).profile.mtu = p.mtu /\ MacShown(SaveIp(p, f).profile) = MacShown(p)
         /\ SaveIp(p, f).profile.sec = p.sec /\ SaveIp(p, f).profile.vpn = p.vpn
<1> DEFINE result == IpApply(p.ip, f.ip)
           ip == result.ip
<1>1. SaveIp(p, f).profile = [p EXCEPT !.ip = ip] /\ SaveIp(p, f).ok = result.ok
  BY DEF SaveIp
<1> HIDE DEF ip
<1>2. \A q : q = [p EXCEPT !.ip = ip] =>
         q.ip = ip /\ q.mtu = p.mtu /\ MacShown(q) = MacShown(p) /\ q.sec = p.sec /\ q.vpn = p.vpn
  BY DEF Profile, MacShown
<1> QED BY <1>1, <1>2 DEF ip

\* The security that a save of a Wi-Fi profile leaves.
SecurityOf(p, f) ==
    IF Rewrites(f) THEN Applied(Clear(p.sec), f.type, f.identity, f.secret)
    ELSE IF NeedsIdentity(f.type) /\ p.sec.x.present
         THEN [p.sec EXCEPT !.x.identity = f.identity] ELSE p.sec

LEMMA SavedSecurity ==
  ASSUME NEW p \in Profile, NEW f, SaveSecurity(p, f).ok
  PROVE  /\ Rewrites(f) => CredentialsValid(f.type, f.identity, f.secret)
         /\ ~Rewrites(f) /\ NeedsIdentity(f.type) => f.identity # ""
         /\ SaveSecurity(p, f).profile.sec = SecurityOf(p, f)
         /\ SaveSecurity(p, f).profile.mtu = p.mtu /\ SaveSecurity(p, f).profile.ip = p.ip
         /\ SaveSecurity(p, f).profile.vpn = p.vpn
<1>1. \A v, q : q = [p EXCEPT !.sec = v] =>
         q.sec = v /\ q.mtu = p.mtu /\ q.ip = p.ip /\ q.vpn = p.vpn
  BY DEF Profile
<1>2. CASE Rewrites(f)
  <2>1. CredentialsValid(f.type, f.identity, f.secret)
    BY <1>2 DEF SaveSecurity
  <2> DEFINE a == Applied(Clear(p.sec), f.type, f.identity, f.secret)
  <2>2. SaveSecurity(p, f).profile = [p EXCEPT !.sec = a]
    BY <1>2, <2>1 DEF SaveSecurity
  <2>3. SecurityOf(p, f) = a
    BY <1>2 DEF SecurityOf
  <2> HIDE DEF a
  <2> QED BY <1>1, <1>2, <2>1, <2>2, <2>3
<1>3. CASE ~Rewrites(f)
  <2>1. NeedsIdentity(f.type) => f.identity # ""
    BY <1>3 DEF SaveSecurity
  <2>2. CASE NeedsIdentity(f.type) /\ p.sec.x.present
    <3> DEFINE n == [p.sec EXCEPT !.x.identity = f.identity]
    <3>1. SaveSecurity(p, f).profile = [p EXCEPT !.sec.x.identity = f.identity]
      BY <1>3, <2>1, <2>2 DEF SaveSecurity
    <3>2. [p EXCEPT !.sec.x.identity = f.identity] = [p EXCEPT !.sec = n]
      OBVIOUS
    <3>3. SecurityOf(p, f) = n
      BY <1>3, <2>2 DEF SecurityOf
    <3> HIDE DEF n
    <3>4. SaveSecurity(p, f).profile = [p EXCEPT !.sec = n]
      BY <3>1, <3>2
    <3> DEFINE q == SaveSecurity(p, f).profile
    <3>5. q = [p EXCEPT !.sec = n]
      BY <3>4
    <3> HIDE DEF q
    <3>6. q.sec = n /\ q.mtu = p.mtu /\ q.ip = p.ip /\ q.vpn = p.vpn
      BY <1>1, <3>5
    <3> QED BY <1>3, <2>1, <3>3, <3>6 DEF q
  <2>3. CASE ~(NeedsIdentity(f.type) /\ p.sec.x.present)
    <3>1. SaveSecurity(p, f).profile = p /\ SecurityOf(p, f) = p.sec
      BY <1>3, <2>1, <2>3 DEF SaveSecurity, SecurityOf
    <3> QED BY <1>3, <2>1, <3>1
  <2> QED BY <2>2, <2>3
<1> QED BY <1>2, <1>3

LEMMA WifiSaved ==
  ASSUME NEW p \in Profile, NEW f \in Form, kind = "wifi", Saved(p, f).ok
  PROVE  /\ Saved(p, f).profile.mtu = f.mtu /\ IpApply(p.ip, f.ip).ok
         /\ Saved(p, f).profile.ip = IpApply(p.ip, f.ip).ip
         /\ Saved(p, f).profile.sec = SecurityOf(p, f) /\ Saved(p, f).profile.vpn = p.vpn
         /\ Rewrites(f) => CredentialsValid(f.type, f.identity, f.secret)
         /\ ~Rewrites(f) /\ NeedsIdentity(f.type) => f.identity # ""
<1> DEFINE m == SaveMtu(p, f)
           sec == IF m.ok THEN SaveSecurity(m.profile, f) ELSE m
<1>1. f.complete
  BY DEF Saved
<1>2. Saved(p, f) = IF sec.ok THEN SaveIp(sec.profile, f) ELSE sec
  BY <1>1 DEF Saved, SaveWifi
<1>3. m.profile \in Profile
  BY MtuSaved
<1> HIDE DEF m
<1>4. sec.profile \in Profile
  BY <1>3, SecuritySaved
<1>5. sec.ok
  <2> HIDE DEF sec
  <2> QED BY <1>2
<1>6. m.ok /\ sec = SaveSecurity(m.profile, f)
  BY <1>5
<1>7. m.profile.mtu = f.mtu /\ m.profile.ip = p.ip /\ m.profile.sec = p.sec
        /\ m.profile.vpn = p.vpn
  <2>1. f.mtu = 0 \/ MtuValid(f.mtu)
    BY <1>6 DEF m, SaveMtu
  <2>2. m.profile = [p EXCEPT !.mtu = f.mtu]
    BY <2>1 DEF m, SaveMtu
  <2> QED BY <2>2 DEF Profile
<1>8. SecurityOf(m.profile, f) = SecurityOf(p, f)
  BY <1>7 DEF SecurityOf
<1>9. /\ Rewrites(f) => CredentialsValid(f.type, f.identity, f.secret)
      /\ ~Rewrites(f) /\ NeedsIdentity(f.type) => f.identity # ""
      /\ sec.profile.sec = SecurityOf(p, f) /\ sec.profile.mtu = f.mtu
      /\ sec.profile.ip = p.ip /\ sec.profile.vpn = p.vpn
  <2>1. SaveSecurity(m.profile, f).ok
    BY <1>5, <1>6
  <2> QED BY <1>3, <1>6, <1>7, <1>8, <2>1, SavedSecurity
<1> HIDE DEF sec
<1>10. Saved(p, f) = SaveIp(sec.profile, f)
  BY <1>2, <1>5
<1>11. SaveIp(sec.profile, f).ok
  BY <1>10
<1> DEFINE q == sec.profile
           r == SaveIp(q, f)
<1>12. /\ IpApply(q.ip, f.ip).ok /\ r.profile.ip = IpApply(q.ip, f.ip).ip
       /\ r.profile.mtu = q.mtu /\ r.profile.sec = q.sec /\ r.profile.vpn = q.vpn
  BY <1>4, <1>11, SavedIp
<1>13. Saved(p, f) = r /\ q.mtu = f.mtu /\ q.ip = p.ip /\ q.sec = SecurityOf(p, f)
         /\ q.vpn = p.vpn
  BY <1>9, <1>10
<1> HIDE DEF q, r
<1> QED BY <1>9, <1>12, <1>13

LEMMA WiredSaved ==
  ASSUME NEW p \in Profile, NEW f \in Form, kind = "wired", Saved(p, f).ok
  PROVE  /\ MacShown(Saved(p, f).profile) = f.mac /\ IpApply(p.ip, f.ip).ok
         /\ Saved(p, f).profile.ip = IpApply(p.ip, f.ip).ip
         /\ Saved(p, f).profile.sec = p.sec /\ Saved(p, f).profile.vpn = p.vpn
<1> DEFINE q == [p EXCEPT !.mac = f.mac, !.cloned = ""]
<1>1. f.complete
  BY DEF Saved
<1>2. Saved(p, f) = SaveIp(q, f)
  BY <1>1 DEF Saved, SaveWired
<1>3. q \in Profile
  BY FormFields, ProfileWritten
<1>4. MacShown(q) = f.mac /\ q.ip = p.ip /\ q.sec = p.sec /\ q.vpn = p.vpn
  BY DEF Profile, MacShown
<1> HIDE DEF q
<1> QED BY <1>2, <1>3, <1>4, SavedIp

LEMMA VpnKindSaved ==
  ASSUME NEW p \in Profile, NEW f, kind \notin {"wifi", "wired"}, Saved(p, f).ok
  PROVE  /\ VpnSave(kind, Sealed, keys, isNew, p.vpn, f.vpn).ok
         /\ Saved(p, f).profile.vpn = VpnSave(kind, Sealed, keys, isNew, p.vpn, f.vpn).vpn
         /\ Saved(p, f).profile.sec = p.sec
<1> DEFINE result == VpnSave(kind, Sealed, keys, isNew, p.vpn, f.vpn)
           v == result.vpn
<1>1. f.complete
  BY DEF Saved
<1>2. Saved(p, f).ok = result.ok /\ Saved(p, f).profile = [p EXCEPT !.vpn = v]
  BY <1>1 DEF Saved, SaveVpn
<1> HIDE DEF v
<1>3. \A q : q = [p EXCEPT !.vpn = v] => q.vpn = v /\ q.sec = p.sec
  BY DEF Profile
<1> QED BY <1>2, <1>3 DEF v

\* A plugin's profile: the server goes under the key it had, the password, if the object
\* has no secrets, under "password".
LEMMA PluginSaved ==
  ASSUME NEW k \in PluginKinds, NEW v \in Vpn, NEW f \in VpnForm,
         PluginSave(k, KeysOf(k, v), FALSE, v, f).ok
  PROVE  LET w == PluginSave(k, KeysOf(k, v), FALSE, v, f).vpn
         IN /\ w.user = f.user /\ w.privateKey = v.privateKey
            /\ VpnLoad(k, w).server = f.server
            /\ v.secrets = NoSecrets /\ f.password = "" /\ f.psk = "" => w.secrets = NoSecrets
            /\ v.secrets = NoSecrets /\ f.password # "" =>
                  w.secrets["password"] = f.password
<1> DEFINE ks == KeysOf(k, v)
           served == [v.data EXCEPT ![ks.server] = f.server]
           extra == IF HasExtra(k) THEN [served EXCEPT ![ExtraKey(k)] = f.extra] ELSE served
           data == IF k = "l2tp"
                   THEN [extra EXCEPT !["ipsec-enabled"] = IF f.ipsec THEN "yes" ELSE "no"]
                   ELSE extra
           psk == Secretly(v.secrets["ipsec-psk"], f.psk)
           shared == IF k = "l2tp" /\ f.ipsec
                     THEN [v.secrets EXCEPT !["ipsec-psk"] = psk] ELSE v.secrets
           password == Secretly(shared[ks.password], f.password)
           secrets == [shared EXCEPT ![ks.password] = password]
           w == PluginSave(k, KeysOf(k, v), FALSE, v, f).vpn
<1>1. f.server # ""
  BY DEF PluginSave
<1>2. w = [v EXCEPT !.data = data, !.user = f.user, !.secrets = secrets]
  BY <1>1 DEF PluginSave
<1>3. /\ v.data \in [DataKeys -> DataValues] /\ v.secrets \in [SecretKeys -> Passwords]
      /\ f.server \in DataValues /\ f.extra \in DataValues
      /\ f.psk \in Passwords /\ f.password \in Passwords
  BY VpnFields, VpnFormFields
<1> DEFINE first == FirstSet(v.data, ServerKeys)
           hidden == FirstSet(v.secrets, PasswordKeys)
<1>4. /\ ks.server = IF first = "" THEN DefaultServerKey(k) ELSE first
      /\ ks.password = IF hidden = "" THEN "password" ELSE hidden
  BY DEF KeysOf
<1>5. first = IF v.data["remote"] # "" THEN "remote"
              ELSE IF v.data["gateway"] # "" THEN "gateway" ELSE ""
  BY FirstServer
<1>6. v.secrets = NoSecrets => ks.password = "password"
  <2>1. v.secrets = NoSecrets => \A s \in SecretKeys : v.secrets[s] = ""
    BY DEF NoSecrets
  <2>2. v.secrets = NoSecrets => hidden = ""
    BY <2>1, FirstPassword
  <2> HIDE DEF ks, hidden
  <2> QED BY <1>4, <2>2
<1>7. ks.server \in {"remote", "gateway"} /\ (ks.server = "gateway" => v.data["remote"] = "")
  <2>1. DefaultServerKey(k) \in {"remote", "gateway"}
    BY DEF DefaultServerKey
  <2> HIDE DEF ks, first
  <2> QED BY <1>4, <1>5, <2>1
<1> HIDE DEF ks
<1>8. w.data = data /\ w.user = f.user /\ w.secrets = secrets /\ w.privateKey = v.privateKey
  <2> HIDE DEF data, secrets, w
  <2> QED BY <1>2 DEF Vpn
<1>9. data[ks.server] = f.server /\ (ks.server = "gateway" => data["remote"] = "")
  <2>1. /\ {"remote", "gateway", "ipsec-enabled", "group", "cert"} \subseteq DataKeys
        /\ ExtraKey(k) \in {"group", "cert"}
    BY DEF DataKeys, ExtraKey
  <2>2. served[ks.server] = f.server /\ (ks.server = "gateway" => served["remote"] = "")
          /\ DOMAIN served = DataKeys
    BY <1>3, <1>7, <2>1
  <2> HIDE DEF served
  <2>3. extra[ks.server] = f.server /\ (ks.server = "gateway" => extra["remote"] = "")
          /\ DOMAIN extra = DataKeys
    BY <1>7, <2>1, <2>2
  <2> HIDE DEF extra
  <2> QED BY <1>7, <2>1, <2>3
<1>10. VpnLoad(k, w).server = f.server
  <2> HIDE DEF data, w
  <2>1. FirstSet(w.data, ServerKeys) = ks.server
    <3>1. FirstSet(w.data, ServerKeys) =
            IF w.data["remote"] # "" THEN "remote"
            ELSE IF w.data["gateway"] # "" THEN "gateway" ELSE ""
      BY FirstServer
    <3>2. w.data = data
      BY <1>8
    <3>3. CASE ks.server = "remote"
      BY <1>1, <1>9, <3>1, <3>2, <3>3
    <3>4. CASE ks.server = "gateway"
      BY <1>1, <1>9, <3>1, <3>2, <3>4
    <3> QED BY <1>7, <3>3, <3>4
  <2>2. VpnLoad(k, w).server = IF FirstSet(w.data, ServerKeys) = "" THEN ""
                               ELSE w.data[FirstSet(w.data, ServerKeys)]
    BY DEF VpnLoad, NoVpnForm, DataValue
  <2> QED BY <1>7, <1>8, <1>9, <2>1, <2>2
<1>11. ASSUME v.secrets = NoSecrets PROVE secrets = [shared EXCEPT !["password"] =
                                              Secretly(shared["password"], f.password)]
  BY <1>6, <1>11
<1>12. DOMAIN shared = SecretKeys /\ "password" \in SecretKeys
  BY <1>3 DEF SecretKeys
<1>13. v.secrets = NoSecrets /\ f.password # "" => secrets["password"] = f.password
  <2> HIDE DEF shared
  <2> QED BY <1>11, <1>12 DEF Secretly
<1>14. ASSUME v.secrets = NoSecrets, f.password = "", f.psk = "" PROVE secrets = NoSecrets
  <2>1. NoSecrets \in [SecretKeys -> Passwords] /\ \A s \in SecretKeys : NoSecrets[s] = ""
    BY NoSecretsTyped DEF NoSecrets
  <2>2. psk = ""
    BY <1>14, <2>1 DEF Secretly, SecretKeys
  <2> HIDE DEF psk
  <2>3. shared = NoSecrets
    <3>1. [NoSecrets EXCEPT !["ipsec-psk"] = ""] = NoSecrets
      BY <2>1
    <3> QED BY <1>14, <2>2, <3>1
  <2> HIDE DEF shared
  <2>4. Secretly(NoSecrets["password"], f.password) = ""
    BY <1>12, <1>14, <2>1 DEF Secretly
  <2>5. [NoSecrets EXCEPT !["password"] = ""] = NoSecrets
    BY <2>1
  <2> QED BY <1>11, <1>14, <2>3, <2>4, <2>5
<1> HIDE DEF data, secrets, w
<1>15. /\ w.user = f.user /\ w.privateKey = v.privateKey /\ VpnLoad(k, w).server = f.server
       /\ v.secrets = NoSecrets /\ f.password = "" /\ f.psk = "" => w.secrets = NoSecrets
       /\ v.secrets = NoSecrets /\ f.password # "" => w.secrets["password"] = f.password
  BY <1>8, <1>10, <1>13, <1>14
<1> QED BY <1>15 DEF w

LEMMA WireGuardSaved ==
  ASSUME NEW sealed, NEW new, ~new, NEW v \in Vpn, NEW f,
         WireGuardSave(sealed, new, v, f).ok
  PROVE  LET w == WireGuardSave(sealed, new, v, f).vpn
         IN /\ w.peer.publicKey = f.publicKey /\ w.peer.endpoint = f.endpoint
            /\ w.secrets = v.secrets /\ w.privateKey = Secretly(v.privateKey, f.privateKey)
<1> DEFINE hasPeer == v.peer # NoPeer
           key == Secretly(v.privateKey, f.privateKey)
           keyed == [v EXCEPT !.privateKey = key]
           whole == [publicKey |-> f.publicKey, endpoint |-> f.endpoint,
                     ranges |-> Ranges(f.ranges), keepalive |-> f.keepalive]
           w == WireGuardSave(sealed, new, v, f).vpn
<1>1. ~WireGuardRefused(new, f)
  BY DEF WireGuardSave
<1>2. KeyValid(f.publicKey) /\ ~(hasPeer /\ sealed)
  BY <1>1 DEF WireGuardSave
<1>3. EndpointValid(f.endpoint)
  BY <1>1, <1>2 DEF WireGuardSave
<1>4. w = [keyed EXCEPT !.peer = whole]
  BY <1>1, <1>2, <1>3 DEF WireGuardSave, PeerSet
<1>5. whole.publicKey = f.publicKey /\ whole.endpoint = f.endpoint
  OBVIOUS
<1> HIDE DEF whole, key, w
<1>6. w.peer = whole /\ w.secrets = v.secrets /\ w.privateKey = key
  BY <1>4 DEF Vpn
<1>7. /\ w.peer.publicKey = f.publicKey /\ w.peer.endpoint = f.endpoint
      /\ w.secrets = v.secrets /\ w.privateKey = key
  BY <1>5, <1>6
<1> QED BY <1>7 DEF w, key

-----------------------------------------------------------------------------
(* What comes back.                                                        *)

LEMMA SentFields ==
  ASSUME NEW p \in Profile
  PROVE  /\ Sent(p).mtu = p.mtu /\ MacShown(Sent(p)) = MacShown(p) /\ Sent(p).ip = p.ip
         /\ Sent(p).sec = WithoutSecrets(p.sec) /\ Sent(p).vpn = VpnWithoutSecrets(p.vpn)
<1> DEFINE s == WithoutSecrets(p.sec)
           v == VpnWithoutSecrets(p.vpn)
<1>1. Sent(p) = [p EXCEPT !.sec = s, !.vpn = v]
  BY GoneIsNoProfile DEF Sent
<1> HIDE DEF s, v
<1>2. /\ Sent(p).mtu = p.mtu /\ MacShown(Sent(p)) = MacShown(p) /\ Sent(p).ip = p.ip
      /\ Sent(p).sec = s /\ Sent(p).vpn = v
  BY <1>1 DEF Profile, MacShown
<1> QED BY <1>2 DEF s, v

LEMMA MergedFields ==
  ASSUME NEW old \in Profile, NEW new \in Profile
  PROVE  /\ Merged(old, new).mtu = new.mtu /\ MacShown(Merged(old, new)) = MacShown(new)
         /\ Merged(old, new).ip = new.ip
         /\ Merged(old, new).sec = Updated(old.sec, new.sec)
         /\ Merged(old, new).vpn = VpnUpdated(old.vpn, new.vpn)
<1> DEFINE s == Updated(old.sec, new.sec)
           v == VpnUpdated(old.vpn, new.vpn)
           m == Merged(old, new)
<1>1. m = [new EXCEPT !.sec = s, !.vpn = v]
  BY DEF Merged
<1> HIDE DEF s, v, m
<1>2. /\ m.mtu = new.mtu /\ MacShown(m) = MacShown(new) /\ m.ip = new.ip
      /\ m.sec = s /\ m.vpn = v
  BY <1>1 DEF Profile, MacShown
<1> QED BY <1>2 DEF s, v, m

\* Secrets come and go; the rest of a VPN profile stays.
LEMMA VpnReturns ==
  ASSUME NEW old \in Vpn, NEW new \in Vpn
  PROVE  LET v == VpnWithoutSecrets(VpnUpdated(old, new))
         IN v.data = new.data /\ v.user = new.user /\ v.peer = new.peer
BY DEF VpnWithoutSecrets, VpnUpdated, Vpn

LEMMA VpnLoadDepends ==
  ASSUME NEW k, NEW v, NEW w, v.data = w.data, v.user = w.user, v.peer = w.peer
  PROVE  VpnLoad(k, v) = VpnLoad(k, w)
BY DEF VpnLoad, DataValue

\* The type is recognised by the key management, once there is no WEP key.
LEMMA DetectedDepends ==
  ASSUME NEW a, NEW b, a.wsec.mgmt = b.wsec.mgmt, a.wsec.leap = b.wsec.leap,
         a.wsec.secret = "", b.wsec.secret = ""
  PROVE  Detected(a) = Detected(b)
BY DEF Detected

LEMMA SecurityReturns ==
  ASSUME NEW old \in Security, NEW new \in Security
  PROVE  LET s == WithoutSecrets(Updated(old, new))
         IN /\ s.wsec.mgmt = new.wsec.mgmt /\ s.wsec.leap = new.wsec.leap
            /\ s.wsec.secret = "" /\ s.x.identity = new.x.identity
BY DEF WithoutSecrets, Updated, Security

\* What the dialog would show of a profile that has been saved.
LEMMA ShownFields ==
  ASSUME NEW old \in Profile, NEW new \in Profile
  PROVE  LET s == Shown(Merged(old, new))
             security == WithoutSecrets(Updated(old.sec, new.sec))
         IN /\ s.mtu = new.mtu /\ s.mac = MacShown(new) /\ s.ip = IpLoad(new.ip)
            /\ s.vpn = VpnLoad(kind, new.vpn)
            /\ s.type = IF Detected(security) \in OnOffer THEN Detected(security) ELSE "None"
            /\ s.identity = IF NeedsIdentity(s.type) THEN new.sec.x.identity ELSE ""
<1> DEFINE m == Merged(old, new)
           p == Sent(m)
           security == WithoutSecrets(Updated(old.sec, new.sec))
           v == VpnWithoutSecrets(VpnUpdated(old.vpn, new.vpn))
           s == Shown(Merged(old, new))
<1>1. m \in Profile /\ p \in Profile
  BY MergedTyped, SentTyped
<1>2. /\ m.mtu = new.mtu /\ MacShown(m) = MacShown(new) /\ m.ip = new.ip
      /\ m.sec = Updated(old.sec, new.sec) /\ m.vpn = VpnUpdated(old.vpn, new.vpn)
  BY MergedFields
<1>3. s = Loaded(p)
  BY DEF Shown
<1> HIDE DEF m, s
<1>4. /\ p.mtu = new.mtu /\ MacShown(p) = MacShown(new) /\ p.ip = new.ip /\ p.sec = security /\ p.vpn = v
  BY <1>1, <1>2, SentFields
<1>5. /\ s.mtu = p.mtu /\ s.mac = MacShown(p) /\ s.ip = IpLoad(p.ip)
      /\ s.vpn = VpnLoad(kind, p.vpn)
      /\ s.type = IF Detected(p.sec) \in OnOffer THEN Detected(p.sec) ELSE "None"
      /\ s.identity = IF NeedsIdentity(s.type) THEN p.sec.x.identity ELSE ""
  BY <1>1, <1>3, LoadedFields
<1>6. old.sec \in Security /\ new.sec \in Security /\ old.vpn \in Vpn /\ new.vpn \in Vpn
  BY ProfileFields
<1>7. security.x.identity = new.sec.x.identity
  BY <1>6, SecurityReturns
<1>8. v.data = new.vpn.data /\ v.user = new.vpn.user /\ v.peer = new.vpn.peer
  BY <1>6, VpnReturns
<1> HIDE DEF v, security, p
<1>9. VpnLoad(kind, v) = VpnLoad(kind, new.vpn)
  BY <1>8, VpnLoadDepends
<1>10. /\ s.mtu = new.mtu /\ s.mac = MacShown(new) /\ s.ip = IpLoad(new.ip)
       /\ s.vpn = VpnLoad(kind, new.vpn)
       /\ s.type = IF Detected(security) \in OnOffer THEN Detected(security) ELSE "None"
       /\ s.identity = IF NeedsIdentity(s.type) THEN new.sec.x.identity ELSE ""
  BY <1>4, <1>5, <1>7, <1>9
<1> QED BY <1>10 DEF s, m, security

\* The types that wifiSecurityApply makes are recognised, but for WEP.
LEMMA AppliedIsDetected ==
  ASSUME NEW type \in Types \ {"WepKey", "WepPassphrase"}, NEW identity, NEW secret, NEW a,
         a.wsec.mgmt = Applied(Open, type, identity, secret).wsec.mgmt,
         a.wsec.leap = Applied(Open, type, identity, secret).wsec.leap, a.wsec.secret = ""
  PROVE  Detected(a) = type
<1>1. CASE type = "None"
  <2>1. a.wsec.mgmt = "absent"
    BY <1>1 DEF Applied, Open, NoWsec
  <2> QED BY <1>1, <2>1 DEF Detected
<1>2. CASE type # "None"
  <2> DEFINE w == WsecOf(type, secret)
  <2> HIDE DEF w
  <2> DEFINE b == Applied(Open, type, identity, secret)
  <2>1. b.wsec = w
    BY <1>2 DEF w, Applied
  <2>2. a.wsec.mgmt = w.mgmt /\ a.wsec.leap = w.leap
    <3>1. a.wsec.mgmt = b.wsec.mgmt /\ a.wsec.leap = b.wsec.leap
      OBVIOUS
    <3> HIDE DEF b
    <3> QED BY <2>1, <3>1
  <2>3. /\ type = "Leap" => w.mgmt = "ieee8021x" /\ w.leap = TRUE
        /\ type = "DynamicWep" => w.mgmt = "ieee8021x" /\ w.leap = FALSE
        /\ type = "WpaPsk" => w.mgmt = "wpa-psk"
        /\ type = "WpaEnterprise" => w.mgmt = "wpa-eap"
        /\ type = "Sae" => w.mgmt = "sae"
        /\ type = "Owe" => w.mgmt = "owe"
    BY DEF w, WsecOf, NoWsec
  <2>4. type \in {"Leap", "DynamicWep", "WpaPsk", "WpaEnterprise", "Sae", "Owe"}
    BY <1>2 DEF Types
  <2> QED BY <2>2, <2>3, <2>4 DEF Detected
<1> QED BY <1>1, <1>2

\* A type that needs an identity has a setting for it.
LEMMA DetectedHasIdentity ==
  ASSUME NEW sec \in Security, Coherent(sec), sec.wsec.secret = "",
         NeedsIdentity(Detected(sec))
  PROVE  sec.x.present
<1>1. sec.wsec.mgmt \in {"ieee8021x", "wpa-eap"}
  BY DEF Detected, NeedsIdentity
<1>2. sec # Open
  <2>1. Open.wsec.mgmt = "absent"
    BY DEF Open, NoWsec
  <2> QED BY <1>1, <2>1
<1>3. PICK type \in Types \ {"None"}, identity \in Identities, secret \in Secrets :
         SameButSecrets(sec, Applied(Open, type, identity, secret))
  BY <1>2 DEF Coherent
<1> DEFINE a == Applied(Open, type, identity, secret)
           w == WsecOf(type, secret)
<1>4. a.wsec = w /\ (NeedsIdentity(type) => a.x.present)
  <2>1. NeedsIdentity(type) => a.x.present
    BY AppliedFields
  <2>2. a.wsec = w
    BY DEF Applied
  <2> QED BY <2>1, <2>2
<1>5. w.mgmt \in {"ieee8021x", "wpa-eap"} => NeedsIdentity(type)
  BY DEF WsecOf, NoWsec, NeedsIdentity, Types
<1> HIDE DEF a, w
<1>6. sec.wsec.mgmt = a.wsec.mgmt /\ sec.x.present = a.x.present
  BY <1>3 DEF SameButSecrets, a
<1> QED BY <1>1, <1>4, <1>5, <1>6

-----------------------------------------------------------------------------
(* A commit.                                                               *)

\* A commit that closes the dialog stores what the save has made of the object.
LEMMA CommitStep ==
  ASSUME LInv, TInv, [Next]_vars, Commits
  PROVE  /\ stored \in Profile /\ live \in Profile /\ form \in Form
         /\ Saved(live, form).ok
         /\ stored' = Merged(stored, Saved(live, form).profile)
<1>1. /\ stored # Gone /\ accepted' /\ ~accepted /\ ~isNew /\ dialog = "shown"
  BY DEF Commits
<1>2. ~UNCHANGED accepted
  BY <1>1
<1>3. Next
  <2>1. UNCHANGED vars => UNCHANGED accepted
    BY DEF vars
  <2> QED BY <1>2, <2>1
<1>4. ~(New \/ Edit)
  BY <1>1 DEF New, Edit, Start
<1>5. ~(TypeField \/ ChooseSecurity \/ TypeCredentials)
  BY <1>2 DEF TypeField, ChooseSecurity, TypeCredentials, Enter
<1>6. ~(Cancel \/ SaveFails \/ SaveAdds \/ AddAnswered \/ Elsewhere \/ Fetched)
  BY <1>2 DEF Cancel, SaveFails, SaveAdds, AddAnswered, Elsewhere, Fetched
<1>7. ~WaitEnds
  BY <1>1 DEF WaitEnds, LInv, WaitsAreNew
<1>8. SaveCommits
  BY <1>3, <1>4, <1>5, <1>6, <1>7 DEF Next, User
<1>9. /\ live # Gone /\ Saved(live, form).ok /\ live' = Saved(live, form).profile
      /\ stored' = Merged(stored, live')
  BY <1>2, <1>8 DEF SaveCommits
<1> QED BY <1>1, <1>9 DEF TInv, ProfilesTyped

LEMMA KindsAre ==
  /\ kind \in Kinds => kind \in PluginKinds \cup {"wifi", "wired", "wireguard"}
  /\ "wifi" \notin PluginKinds /\ "wired" \notin PluginKinds /\ "wireguard" \notin PluginKinds
BY EditorAssumption DEF EditorAssumption, PluginKinds

LEMMA PluginUser ==
  ASSUME NEW k, NEW ks, NEW new, NEW v \in Vpn, NEW f, PluginSave(k, ks, new, v, f).ok
  PROVE  PluginSave(k, ks, new, v, f).vpn.user = f.user
<1> DEFINE served == [v.data EXCEPT ![ks.server] = f.server]
           extra == IF HasExtra(k) THEN [served EXCEPT ![ExtraKey(k)] = f.extra] ELSE served
           data == IF k = "l2tp"
                   THEN [extra EXCEPT !["ipsec-enabled"] = IF f.ipsec THEN "yes" ELSE "no"]
                   ELSE extra
           shared == IF k = "l2tp" /\ f.ipsec
                     THEN [v.secrets EXCEPT !["ipsec-psk"] = Secretly(v.secrets["ipsec-psk"],
                                                                      f.psk)]
                     ELSE v.secrets
           secrets == [shared EXCEPT ![ks.password] = Secretly(shared[ks.password], f.password)]
           w == PluginSave(k, ks, new, v, f).vpn
<1>1. ~(f.server = "" \/ (new /\ f.password = ""))
  BY DEF PluginSave
<1>2. w = [v EXCEPT !.data = data, !.user = f.user, !.secrets = secrets]
  BY <1>1 DEF PluginSave
<1> HIDE DEF data, secrets, w
<1>3. w.user = f.user
  BY <1>2 DEF Vpn
<1> QED BY <1>3 DEF w

LEMMA PluginShowsUser ==
  ASSUME NEW k \in PluginKinds, NEW v, v.user # "" PROVE VpnLoad(k, v).user = v.user
BY DEF VpnLoad, NoVpnForm

LEMMA WireGuardShows ==
  ASSUME NEW v
  PROVE  /\ VpnLoad("wireguard", v).publicKey = v.peer.publicKey
         /\ VpnLoad("wireguard", v).endpoint = v.peer.endpoint
BY KindsAre DEF VpnLoad, NoVpnForm

\* The fields of an editor come back, whatever the object had become.
LEMMA SavesShowAlways ==
  ASSUME NEW old \in Profile, NEW p \in Profile, form \in Form, kind \in Kinds, ~isNew,
         isNew \in BOOLEAN, Saved(p, form).ok
  PROVE  AlwaysShown(Merged(old, Saved(p, form).profile))
<1> DEFINE n == Saved(p, form).profile
           m == Merged(old, n)
           s == Shown(m)
<1>1. n \in Profile
  BY SavedTyped
<1>2. /\ s.mtu = n.mtu /\ s.mac = MacShown(n)
      /\ s.ip = IpLoad(n.ip) /\ s.vpn = VpnLoad(kind, n.vpn)
  BY <1>1, ShownFields
<1>3. p.ip \in IpSetting /\ form.ip \in IpForm /\ p.vpn \in Vpn /\ form.vpn \in VpnForm
  BY ProfileFields, FormFields
<1>4. ASSUME kind = "wifi" PROVE n.mtu = form.mtu
  BY <1>4, WifiSaved
<1>5. ASSUME kind = "wired" PROVE MacShown(n) = form.mac
  BY <1>5, WiredSaved
<1>6. ASSUME kind \in {"wifi", "wired"}
      PROVE  n.ip = IpApply(p.ip, form.ip).ip /\ IpApply(p.ip, form.ip).ok
  <2>1. CASE kind = "wifi"
    BY <2>1, WifiSaved
  <2>2. CASE kind = "wired"
    BY <2>2, WiredSaved
  <2> QED BY <1>6, <2>1, <2>2
<1>7. ASSUME kind \in {"wifi", "wired"}
      PROVE  /\ IpLoad(n.ip).manual = form.ip.manual
             /\ form.ip.manual => IpLoad(n.ip).address = form.ip.address
  <2>1. n.ip = IpApply(p.ip, form.ip).ip /\ IpApply(p.ip, form.ip).ok
    BY <1>6, <1>7
  <2> HIDE DEF n
  <2> QED BY <1>3, <2>1, IpShown
<1> DEFINE save == VpnSave(kind, Sealed, keys, isNew, p.vpn, form.vpn)
<1>8. ASSUME kind \notin {"wifi", "wired"} PROVE save.ok /\ n.vpn = save.vpn
  BY <1>8, VpnKindSaved
<1>9. ASSUME kind \in PluginKinds, form.vpn.user # "" PROVE VpnLoad(kind, n.vpn).user = form.vpn.user
  <2>1. kind \notin {"wifi", "wired"}
    BY <1>9, KindsAre
  <2>2. save = PluginSave(kind, keys, isNew, p.vpn, form.vpn)
    BY <1>9 DEF VpnSave
  <2>3. save.ok /\ n.vpn = save.vpn
    BY <1>8, <2>1
  <2>4. save.vpn.user = form.vpn.user
    <3>1. PluginSave(kind, keys, isNew, p.vpn, form.vpn).ok
      BY <2>2, <2>3
    <3>2. PluginSave(kind, keys, isNew, p.vpn, form.vpn).vpn.user = form.vpn.user
      BY <1>3, <3>1, PluginUser
    <3> HIDE DEF save
    <3> QED BY <2>2, <3>2
  <2> HIDE DEF save, n
  <2>5. n.vpn.user = form.vpn.user
    BY <2>3, <2>4
  <2>6. VpnLoad(kind, n.vpn).user = n.vpn.user
    BY <1>9, <2>5, PluginShowsUser
  <2> QED BY <2>5, <2>6
<1>10. ASSUME kind = "wireguard"
       PROVE  /\ VpnLoad(kind, n.vpn).publicKey = form.vpn.publicKey
              /\ VpnLoad(kind, n.vpn).endpoint = form.vpn.endpoint
  <2>1. kind \notin {"wifi", "wired"} /\ kind \notin PluginKinds
    BY <1>10, KindsAre
  <2>2. save = WireGuardSave(Sealed, isNew, p.vpn, form.vpn)
    BY <2>1 DEF VpnSave
  <2>3. save.ok /\ n.vpn = save.vpn
    BY <1>8, <2>1
  <2>4. WireGuardSave(Sealed, isNew, p.vpn, form.vpn).ok
    BY <2>2, <2>3
  <2>5. /\ WireGuardSave(Sealed, isNew, p.vpn, form.vpn).vpn.peer.publicKey = form.vpn.publicKey
        /\ WireGuardSave(Sealed, isNew, p.vpn, form.vpn).vpn.peer.endpoint = form.vpn.endpoint
    <3> DEFINE v == p.vpn
               f == form.vpn
               r == WireGuardSave(Sealed, isNew, v, f)
    <3>1. v \in Vpn /\ r.ok
      BY <1>3, <2>4
    <3> HIDE DEF v, f, n, save
    <3>2. r.vpn.peer.publicKey = f.publicKey /\ r.vpn.peer.endpoint = f.endpoint
      BY <3>1, WireGuardSaved
    <3> QED BY <3>2 DEF v, f
  <2> HIDE DEF save, n
  <2>6. n.vpn.peer.publicKey = form.vpn.publicKey /\ n.vpn.peer.endpoint = form.vpn.endpoint
    BY <2>2, <2>3, <2>5
  <2>7. /\ VpnLoad("wireguard", n.vpn).publicKey = n.vpn.peer.publicKey
        /\ VpnLoad("wireguard", n.vpn).endpoint = n.vpn.peer.endpoint
    BY WireGuardShows
  <2> QED BY <1>10, <2>6, <2>7
<1> HIDE DEF s, n, save
<1>11. /\ kind = "wifi" => s.mtu = form.mtu
       /\ kind = "wired" => s.mac = form.mac
       /\ kind \in {"wifi", "wired"} =>
             /\ s.ip.manual = form.ip.manual
             /\ form.ip.manual => s.ip.address = form.ip.address
  BY <1>2, <1>4, <1>5, <1>7
<1>12. /\ kind \in PluginKinds /\ form.vpn.user # "" => s.vpn.user = form.vpn.user
       /\ kind = "wireguard" =>
             /\ s.vpn.publicKey = form.vpn.publicKey
             /\ s.vpn.endpoint = form.vpn.endpoint
  BY <1>2, <1>9, <1>10
<1> HIDE DEF m
<1>13. AlwaysShown(m)
  BY <1>11, <1>12 DEF AlwaysShown, s
<1> QED BY <1>13 DEF m, n

\* What a dialog edits that has loaded the profile as NetworkManager has it.
LEMMA FreshFacts ==
  ASSUME TInv, FInv, Fresh, dialog = "shown", ~isNew, stored \in Profile, live \in Profile
  PROVE  /\ live = Sent(stored) /\ live.sec = WithoutSecrets(stored.sec)
         /\ live.vpn = VpnWithoutSecrets(stored.vpn)
         /\ loaded = Detected(live.sec) /\ keys = KeysOf(kind, live.vpn)
         /\ ~touched => form.type = Loaded(live).type
<1>1. live = Sent(stored)
  BY DEF FInv, LiveFollows, Known
<1>2. Sent(stored).sec = WithoutSecrets(stored.sec)
        /\ Sent(stored).vpn = VpnWithoutSecrets(stored.vpn)
  BY SentFields
<1>3. /\ loaded = Detected(live.sec) /\ keys = KeysOf(kind, live.vpn)
      /\ ~touched => form.type = Loaded(live).type
  BY DEF FInv, FormFollows, Fresh
<1>4. live.sec = WithoutSecrets(stored.sec) /\ live.vpn = VpnWithoutSecrets(stored.vpn)
  BY <1>1, <1>2
<1> QED BY <1>1, <1>3, <1>4

LEMMA NoSecretsLeft ==
  ASSUME NEW sec \in Security
  PROVE  LET s == WithoutSecrets(sec)
         IN /\ s.wsec.secret = "" /\ s.x.secret = "" /\ s.wsec.mgmt = sec.wsec.mgmt
            /\ s.x.present = sec.x.present
BY DEF WithoutSecrets, Security

LEMMA NoVpnSecretsLeft ==
  ASSUME NEW v \in Vpn
  PROVE  VpnWithoutSecrets(v).secrets = NoSecrets /\ VpnWithoutSecrets(v).privateKey = ""
BY DEF VpnWithoutSecrets, Vpn

\* Without a rewrite the security keeps its type and its secrets.
LEMMA IdentityWritten ==
  ASSUME NEW p \in Profile, NEW f, ~Rewrites(f)
  PROVE  LET n == SecurityOf(p, f)
         IN /\ n.wsec = p.sec.wsec /\ n.x.present = p.sec.x.present
            /\ n.x.secret = p.sec.x.secret
            /\ NeedsIdentity(f.type) /\ p.sec.x.present => n.x.identity = f.identity
<1>1. p.sec \in Security
  BY ProfileFields
<1>2. CASE NeedsIdentity(f.type) /\ p.sec.x.present
  <2> DEFINE n == [p.sec EXCEPT !.x.identity = f.identity]
  <2>1. SecurityOf(p, f) = n
    BY <1>2 DEF SecurityOf
  <2>2. /\ n.wsec = p.sec.wsec /\ n.x.present = p.sec.x.present
        /\ n.x.secret = p.sec.x.secret /\ n.x.identity = f.identity
    BY <1>1 DEF Security
  <2> QED BY <2>1, <2>2
<1>3. CASE ~(NeedsIdentity(f.type) /\ p.sec.x.present)
  <2>1. SecurityOf(p, f) = p.sec
    BY <1>3 DEF SecurityOf
  <2> QED BY <1>3, <2>1
<1> QED BY <1>2, <1>3

LEMMA Rewritten ==
  ASSUME NEW p, NEW f, Rewrites(f)
  PROVE  SecurityOf(p, f) = Applied(Open, f.type, f.identity, f.secret)
BY DEF SecurityOf, Clear, Open

\* The type and the identity come back.
LEMMA TypeReturns ==
  ASSUME IInv, TInv, FInv, Fresh, kind = "wifi", dialog = "shown", ~isNew,
         stored \in Profile, live \in Profile, form \in Form, Saved(live, form).ok,
         form.type \notin {"WepKey", "WepPassphrase"}
  PROVE  LET s == Shown(Merged(stored, Saved(live, form).profile))
         IN s.type = form.type /\ s.identity = form.identity
<1> DEFINE n == Saved(live, form).profile
           sec == n.sec
           back == WithoutSecrets(Updated(stored.sec, sec))
           s == Shown(Merged(stored, n))
<1>1. n \in Profile /\ stored.sec \in Security /\ live.sec \in Security
  BY SavedTyped, ProfileFields
<1>2. sec \in Security
  BY <1>1, ProfileFields
<1>3. /\ s.type = IF Detected(back) \in OnOffer THEN Detected(back) ELSE "None"
      /\ s.identity = IF NeedsIdentity(s.type) THEN sec.x.identity ELSE ""
  BY <1>1, ShownFields
<1>4. sec = SecurityOf(live, form)
  BY WifiSaved
<1> HIDE DEF n, s
<1>5. /\ back.wsec.mgmt = sec.wsec.mgmt /\ back.wsec.leap = sec.wsec.leap
      /\ back.wsec.secret = ""
  <2> HIDE DEF sec
  <2> QED BY <1>1, <1>2, SecurityReturns
<1> HIDE DEF sec, back
<1>6. form.type \in OnOffer /\ form.type \in Types
  BY FormFields, OnOfferTypes
<1>7. ~NeedsIdentity(form.type) => form.identity = ""
  BY DEF FInv, FormClean
<1>8. Detected(back) = form.type
        /\ (NeedsIdentity(form.type) => sec.x.identity = form.identity)
  <2>1. CASE Rewrites(form)
    <3> DEFINE type == form.type
               a == Applied(Open, type, form.identity, form.secret)
    <3>1. sec = a
      BY <1>4, <2>1, Rewritten
    <3>2. type \in Types \ {"WepKey", "WepPassphrase"}
      BY <1>6
    <3>3. back.wsec.mgmt = a.wsec.mgmt /\ back.wsec.leap = a.wsec.leap
      BY <1>5, <3>1
    <3>4. NeedsIdentity(type) => a.x.identity = form.identity
      <4>1. NeedsIdentity(type) => type # "None"
        BY DEF NeedsIdentity
      <4> HIDE DEF type
      <4> QED BY <4>1 DEF Applied
    <3> HIDE DEF type
    <3>5. Detected(back) = type
      BY <1>5, <3>2, <3>3, AppliedIsDetected
    <3> HIDE DEF a
    <3> QED BY <3>1, <3>4, <3>5 DEF type
  <2>2. CASE ~Rewrites(form)
    <3>1. form.type = loaded /\ loaded = Detected(live.sec)
            /\ live.sec = WithoutSecrets(stored.sec)
      BY <2>2, FreshFacts DEF Rewrites
    <3>2. live.sec.wsec.secret = ""
      BY <1>1, <3>1, NoSecretsLeft
    <3>3. /\ sec.wsec = live.sec.wsec
          /\ NeedsIdentity(form.type) /\ live.sec.x.present => sec.x.identity = form.identity
      BY <1>4, <2>2, IdentityWritten
    <3>4. Detected(back) = Detected(live.sec)
      BY <1>5, <3>2, <3>3, DetectedDepends
    <3>5. Coherent(live.sec)
      BY GoneIsNoProfile DEF IInv, LiveSecure, Secure
    <3>6. NeedsIdentity(form.type) => live.sec.x.present
      BY <1>1, <3>1, <3>2, <3>5, DetectedHasIdentity
    <3> QED BY <3>1, <3>3, <3>4, <3>6
  <2> QED BY <2>1, <2>2
<1>9. s.type = form.type /\ s.identity = form.identity
  BY <1>3, <1>6, <1>7, <1>8
<1> QED BY <1>9 DEF s, n

\* A plugin's save, with the keys of what was loaded.
LEMMA PluginKindSaved ==
  ASSUME TInv, FInv, Fresh, kind \in PluginKinds, dialog = "shown", ~isNew,
         stored \in Profile, live \in Profile, form \in Form, Saved(live, form).ok
  PROVE  LET n == Saved(live, form).profile
             w == n.vpn
         IN /\ VpnLoad(kind, w).server = form.vpn.server
            /\ n.sec = live.sec /\ w.privateKey = ""
            /\ form.vpn.password = "" /\ form.vpn.psk = "" => w.secrets = NoSecrets
            /\ form.vpn.password # "" => w.secrets["password"] = form.vpn.password
<1> DEFINE v == live.vpn
           f == form.vpn
           n == Saved(live, form).profile
           save == VpnSave(kind, Sealed, keys, isNew, v, f)
           plugin == PluginSave(kind, KeysOf(kind, v), FALSE, v, f)
<1>1. kind \notin {"wifi", "wired"}
  BY KindsAre
<1>2. save.ok /\ n.vpn = save.vpn /\ n.sec = live.sec
  BY <1>1, VpnKindSaved
<1>3. keys = KeysOf(kind, v) /\ v = VpnWithoutSecrets(stored.vpn)
  BY FreshFacts
<1>4. isNew = FALSE
  BY DEF TInv, FlagsTyped
<1>5. save = plugin
  BY <1>3, <1>4 DEF VpnSave
<1>6. v \in Vpn /\ f \in VpnForm /\ stored.vpn \in Vpn
  BY ProfileFields, FormFields
<1>7. v.secrets = NoSecrets /\ v.privateKey = ""
  BY <1>3, <1>6, NoVpnSecretsLeft
<1> HIDE DEF save, n
<1>8. plugin.ok
  BY <1>2, <1>5
<1> HIDE DEF v, f
<1>9. /\ plugin.vpn.privateKey = v.privateKey
      /\ VpnLoad(kind, plugin.vpn).server = f.server
      /\ v.secrets = NoSecrets /\ f.password = "" /\ f.psk = "" =>
            plugin.vpn.secrets = NoSecrets
      /\ v.secrets = NoSecrets /\ f.password # "" =>
            plugin.vpn.secrets["password"] = f.password
  BY <1>6, <1>8, PluginSaved
<1> HIDE DEF plugin
<1>10. n.vpn = plugin.vpn
  BY <1>2, <1>5
<1>11. /\ VpnLoad(kind, n.vpn).server = f.server /\ n.sec = live.sec /\ n.vpn.privateKey = ""
       /\ f.password = "" /\ f.psk = "" => n.vpn.secrets = NoSecrets
       /\ f.password # "" => n.vpn.secrets["password"] = f.password
  BY <1>2, <1>7, <1>9, <1>10
<1> QED BY <1>11 DEF n, f

LEMMA SavesShowFresh ==
  ASSUME IInv, TInv, FInv, Fresh, dialog = "shown", ~isNew,
         stored \in Profile, live \in Profile, form \in Form, Saved(live, form).ok
  PROVE  FreshlyShown(Merged(stored, Saved(live, form).profile))
<1> DEFINE n == Saved(live, form).profile
           s == Shown(Merged(stored, n))
<1>1. n \in Profile
  BY SavedTyped
<1>2. s.vpn = VpnLoad(kind, n.vpn)
  BY <1>1, ShownFields
<1>3. kind = "wifi" /\ form.type \notin {"WepKey", "WepPassphrase"} =>
         s.type = form.type /\ s.identity = form.identity
  BY TypeReturns
<1>4. kind \in PluginKinds => VpnLoad(kind, n.vpn).server = form.vpn.server
  BY PluginKindSaved
<1> HIDE DEF n
<1>5. kind \in PluginKinds => s.vpn.server = form.vpn.server
  BY <1>2, <1>4
<1> QED BY <1>3, <1>5 DEF FreshlyShown, n

\* What every save shows again: the property is an action property of Next.
LEMMA ShownStep ==
  ASSUME IInv, LInv, TInv, FInv, [Next]_vars, Commits
  PROVE  AlwaysShown(stored') /\ (Fresh => FreshlyShown(stored'))
<1> DEFINE m == Merged(stored, Saved(live, form).profile)
<1>1. /\ stored \in Profile /\ live \in Profile /\ form \in Form
      /\ Saved(live, form).ok /\ stored' = m
  BY CommitStep
<1>2. ~isNew /\ dialog = "shown" /\ kind \in Kinds /\ isNew \in BOOLEAN
  BY DEF Commits, TInv, FlagsTyped
<1>3. AlwaysShown(m)
  BY <1>1, <1>2, SavesShowAlways
<1>4. Fresh => FreshlyShown(m)
  BY <1>1, <1>2, SavesShowFresh
<1> HIDE DEF m
<1> QED BY <1>1, <1>3, <1>4

-----------------------------------------------------------------------------
(* Secrets.                                                                *)

\* NetworkManager gives back what libnm has left out.
LEMMA SecurityKept ==
  ASSUME NEW old \in Security, NEW new \in Security, old.x.present \/ old.x = NoX,
         new.wsec = WithoutSecrets(old).wsec, new.x.present = old.x.present,
         new.x.secret = ""
  PROVE  LET s == Updated(old, new)
         IN s.wsec.secret = old.wsec.secret /\ s.x.secret = old.x.secret
<1> DEFINE s == Updated(old, new)
<1>1. new.wsec.secret = "" /\ new.wsec.mgmt = old.wsec.mgmt
  BY NoSecretsLeft
<1>2. /\ s.wsec.secret = old.wsec.secret
      /\ s.x.secret = IF new.x.present THEN old.x.secret ELSE ""
  BY <1>1 DEF Updated, HasSecrets, Security
<1>3. ~old.x.present => old.x.secret = ""
  <2>1. NoX.secret = ""
    BY DEF NoX
  <2> QED BY <2>1
<1> HIDE DEF s
<1>4. s.wsec.secret = old.wsec.secret /\ s.x.secret = old.x.secret
  BY <1>2, <1>3
<1> QED BY <1>4 DEF s

LEMMA VpnKept ==
  ASSUME NEW old, NEW new \in Vpn, new.secrets = NoSecrets, new.privateKey = ""
  PROVE  /\ VpnUpdated(old, new).secrets = old.secrets
         /\ VpnUpdated(old, new).privateKey = old.privateKey
BY DEF VpnUpdated, Vpn

\* A save with blank fields, on an object without secrets, writes none.
LEMMA BlankWrites ==
  ASSUME IInv, TInv, FInv, Fresh, dialog = "shown", ~isNew, ~touched, loaded \in OnOffer,
         stored \in Profile, live \in Profile, form \in Form, Saved(live, form).ok,
         Blank(form)
  PROVE  LET n == Saved(live, form).profile
         IN /\ n.sec.wsec = live.sec.wsec /\ n.sec.x.present = live.sec.x.present
            /\ n.sec.x.secret = live.sec.x.secret
            /\ n.vpn.secrets = NoSecrets /\ n.vpn.privateKey = ""
<1> DEFINE n == Saved(live, form).profile
<1>1. /\ form.secret = "" /\ form.vpn.password = "" /\ form.vpn.psk = ""
      /\ form.vpn.privateKey = ""
  BY DEF Blank
<1>2. live.vpn = VpnWithoutSecrets(stored.vpn) /\ loaded = Detected(live.sec)
        /\ form.type = Loaded(live).type
  BY FreshFacts
<1>3. live.vpn \in Vpn /\ stored.vpn \in Vpn
  BY ProfileFields
<1>4. live.vpn.secrets = NoSecrets /\ live.vpn.privateKey = ""
  BY <1>2, <1>3, NoVpnSecretsLeft
<1>5. CASE kind = "wifi"
  <2>1. Loaded(live).type = loaded
    BY <1>2, LoadedFields
  <2>2. ~Rewrites(form)
    BY <1>1, <1>2, <2>1 DEF Rewrites
  <2>3. n.sec = SecurityOf(live, form) /\ n.vpn = live.vpn
    BY <1>5, WifiSaved
  <2>4. /\ SecurityOf(live, form).wsec = live.sec.wsec
        /\ SecurityOf(live, form).x.present = live.sec.x.present
        /\ SecurityOf(live, form).x.secret = live.sec.x.secret
    BY <2>2, IdentityWritten
  <2> HIDE DEF n
  <2>5. /\ n.sec.wsec = live.sec.wsec /\ n.sec.x.present = live.sec.x.present
        /\ n.sec.x.secret = live.sec.x.secret
        /\ n.vpn.secrets = NoSecrets /\ n.vpn.privateKey = ""
    BY <1>4, <2>3, <2>4
  <2> QED BY <2>5 DEF n
<1>6. CASE kind = "wired"
  <2>1. n.sec = live.sec /\ n.vpn = live.vpn
    BY <1>6, WiredSaved
  <2> HIDE DEF n
  <2>2. /\ n.sec.wsec = live.sec.wsec /\ n.sec.x.present = live.sec.x.present
        /\ n.sec.x.secret = live.sec.x.secret
        /\ n.vpn.secrets = NoSecrets /\ n.vpn.privateKey = ""
    BY <1>4, <2>1
  <2> QED BY <2>2 DEF n
<1>7. CASE kind \in PluginKinds
  <2>1. n.sec = live.sec /\ n.vpn.privateKey = "" /\ n.vpn.secrets = NoSecrets
    BY <1>1, <1>7, PluginKindSaved
  <2> HIDE DEF n
  <2>2. /\ n.sec.wsec = live.sec.wsec /\ n.sec.x.present = live.sec.x.present
        /\ n.sec.x.secret = live.sec.x.secret
        /\ n.vpn.secrets = NoSecrets /\ n.vpn.privateKey = ""
    BY <2>1
  <2> QED BY <2>2 DEF n
<1>8. CASE kind = "wireguard"
  <2> DEFINE v == live.vpn
             f == form.vpn
             save == VpnSave(kind, Sealed, keys, isNew, v, f)
             guard == WireGuardSave(Sealed, isNew, v, f)
  <2>1. kind \notin {"wifi", "wired"} /\ kind \notin PluginKinds
    BY <1>8, KindsAre
  <2>2. save.ok /\ n.vpn = save.vpn /\ n.sec = live.sec
    BY <2>1, VpnKindSaved
  <2>3. save = guard
    BY <2>1 DEF VpnSave
  <2> HIDE DEF save, n
  <2>4. guard.ok /\ v \in Vpn
    BY <1>3, <2>2, <2>3
  <2> HIDE DEF v, f
  <2>5. guard.vpn.secrets = v.secrets /\ guard.vpn.privateKey = Secretly(v.privateKey, f.privateKey)
    BY <2>4, WireGuardSaved
  <2> HIDE DEF guard
  <2>6. n.vpn.secrets = v.secrets /\ n.vpn.privateKey = Secretly(v.privateKey, f.privateKey)
    BY <2>2, <2>3, <2>5
  <2>7. v.secrets = NoSecrets /\ v.privateKey = "" /\ f.privateKey = ""
    BY <1>1, <1>4 DEF v, f
  <2>8. /\ n.sec.wsec = live.sec.wsec /\ n.sec.x.present = live.sec.x.present
        /\ n.sec.x.secret = live.sec.x.secret
        /\ n.vpn.secrets = NoSecrets /\ n.vpn.privateKey = ""
    BY <2>2, <2>6, <2>7 DEF Secretly
  <2> QED BY <2>8 DEF n
<1>9. kind \in PluginKinds \cup {"wifi", "wired", "wireguard"}
  BY KindsAre DEF IInv
<1> QED BY <1>5, <1>6, <1>7, <1>8, <1>9

LEMMA BlankKept ==
  ASSUME IInv, TInv, FInv, Fresh, dialog = "shown", ~isNew, ~touched, loaded \in OnOffer,
         stored \in Profile, live \in Profile, form \in Form, Saved(live, form).ok,
         Blank(form)
  PROVE  SecretsOf(Merged(stored, Saved(live, form).profile)) = SecretsOf(stored)
<1> DEFINE n == Saved(live, form).profile
           m == Merged(stored, n)
<1>1. n \in Profile /\ stored.sec \in Security /\ stored.vpn \in Vpn
  BY SavedTyped, ProfileFields
<1>2. /\ n.sec.wsec = live.sec.wsec /\ n.sec.x.present = live.sec.x.present
      /\ n.sec.x.secret = live.sec.x.secret
      /\ n.vpn.secrets = NoSecrets /\ n.vpn.privateKey = ""
  BY BlankWrites
<1>3. live.sec = WithoutSecrets(stored.sec)
  BY FreshFacts
<1> HIDE DEF n
<1>4. n.sec \in Security /\ n.vpn \in Vpn
  BY <1>1, ProfileFields
<1>5. m.sec = Updated(stored.sec, n.sec) /\ m.vpn = VpnUpdated(stored.vpn, n.vpn)
  BY <1>1, MergedFields
<1>6. Coherent(stored.sec)
  BY GoneIsNoProfile DEF IInv, StoredSound, Sound, Secure
<1>7. stored.sec.x.present \/ stored.sec.x = NoX
  BY <1>6 DEF Coherent
<1>8. n.sec.wsec = WithoutSecrets(stored.sec).wsec /\ n.sec.x.present = stored.sec.x.present
        /\ n.sec.x.secret = ""
  BY <1>1, <1>2, <1>3, NoSecretsLeft
<1>9. /\ Updated(stored.sec, n.sec).wsec.secret = stored.sec.wsec.secret
      /\ Updated(stored.sec, n.sec).x.secret = stored.sec.x.secret
  BY <1>1, <1>4, <1>7, <1>8, SecurityKept
<1>10. /\ VpnUpdated(stored.vpn, n.vpn).secrets = stored.vpn.secrets
       /\ VpnUpdated(stored.vpn, n.vpn).privateKey = stored.vpn.privateKey
  BY <1>2, <1>4, VpnKept
<1> HIDE DEF m
<1>11. /\ m.sec.wsec.secret = stored.sec.wsec.secret /\ m.sec.x.secret = stored.sec.x.secret
       /\ m.vpn.secrets = stored.vpn.secrets /\ m.vpn.privateKey = stored.vpn.privateKey
  BY <1>5, <1>9, <1>10
<1> QED BY <1>11 DEF SecretsOf, m, n

SecretIn(sec) == IF sec.x.present THEN sec.x.secret ELSE sec.wsec.secret

\* The settings of a type that needs a secret hold the one typed.
LEMMA AppliedSecret ==
  ASSUME NEW type \in Types, NeedsSecret(type), NEW identity \in Identities, NEW secret \in Secrets,
         secret # "", NEW a, a = Applied(Open, type, identity, secret)
  PROVE  HasSecrets(a) /\ SecretIn(a) = secret
<1>1. type \in {"WepKey", "WepPassphrase", "Leap", "DynamicWep", "WpaPsk", "WpaEnterprise",
                "Sae"}
  BY DEF NeedsSecret, Types
<1>2. a.wsec = WsecOf(type, secret)
  BY <1>1 DEF Applied
<1>3. CASE NeedsIdentity(type)
  <2>1. a.x = [present |-> TRUE, identity |-> identity, secret |-> secret]
    BY <1>1, <1>3 DEF Applied
  <2> DEFINE x == a.x
  <2>0. x = [present |-> TRUE, identity |-> identity, secret |-> secret]
    BY <2>1
  <2> HIDE DEF x
  <2>2. x.present = TRUE /\ x.secret = secret
    BY <2>0
  <2>3. HasSecrets(a) /\ SecretIn(a) = secret
    BY <2>2 DEF HasSecrets, SecretIn, x
  <2> QED BY <2>3
<1>4. CASE ~NeedsIdentity(type)
  <2>1. a.x = NoX
    BY <1>1, <1>4 DEF Applied, Open
  <2>2. type \in {"WepKey", "WepPassphrase", "WpaPsk", "Sae"}
    BY <1>1, <1>4 DEF NeedsIdentity
  <2>3. WsecOf(type, secret).secret = secret
    BY <2>2 DEF WsecOf, NoWsec
  <2>4. ~a.x.present /\ a.wsec.secret = secret
    <3>1. NoX.present = FALSE
      BY DEF NoX
    <3> QED BY <1>2, <2>1, <2>3, <3>1
  <2>5. HasSecrets(a) /\ SecretIn(a) = secret
    BY <2>4 DEF HasSecrets, SecretIn
  <2> QED BY <2>5
<1> QED BY <1>3, <1>4

LEMMA PasswordStored ==
  ASSUME IInv, TInv, FInv, Fresh, dialog = "shown", ~isNew,
         stored \in Profile, live \in Profile, form \in Form, Saved(live, form).ok,
         Password(form) # ""
  PROVE  PasswordOf(Merged(stored, Saved(live, form).profile)) = Password(form)
<1> DEFINE n == Saved(live, form).profile
           m == Merged(stored, n)
<1>1. n \in Profile
  BY SavedTyped
<1>2. m.sec = Updated(stored.sec, n.sec) /\ m.vpn = VpnUpdated(stored.vpn, n.vpn)
  BY <1>1, MergedFields
<1>3. CASE kind = "wifi"
  <2> DEFINE secret == form.secret
             type == form.type
             identity == form.identity
             a == Applied(Open, type, identity, secret)
  <2>1. Password(form) = secret /\ secret # ""
    BY <1>3 DEF Password
  <2>2. Rewrites(form)
    BY <2>1 DEF Rewrites
  <2>3. type \in Types /\ identity \in Identities /\ secret \in Secrets
    BY FormFields, OnOfferTypes
  <2>4. NeedsSecret(type)
    BY <2>1 DEF FInv, FormClean
  <2>5. n.sec = a
    <3>1. n.sec = SecurityOf(live, form)
      BY <1>3, WifiSaved
    <3>2. SecurityOf(live, form) = a
      BY <2>2, Rewritten
    <3> QED BY <3>1, <3>2
  <2> HIDE DEF secret, type, identity, n, m
  <2>6. a = Applied(Open, type, identity, secret)
    OBVIOUS
  <2> HIDE DEF a
  <2>7. HasSecrets(a) /\ SecretIn(a) = secret
    BY <2>1, <2>3, <2>4, <2>6, AppliedSecret
  <2>8. m.sec = a
    BY <1>2, <2>5, <2>7 DEF Updated
  <2>9. PasswordOf(m) = SecretIn(m.sec)
    BY <1>3 DEF PasswordOf, SecretIn
  <2>10. PasswordOf(m) = secret
    BY <2>7, <2>8, <2>9
  <2> QED BY <2>1, <2>10 DEF m, n
<1>4. CASE kind # "wifi"
  <2>1. Password(form) = form.vpn.password
    BY <1>4 DEF Password
  <2>2. kind \in PluginKinds
    BY <2>1 DEF FInv, FormClean
  <2>3. n.vpn.secrets["password"] = form.vpn.password
    BY <2>1, <2>2, PluginKindSaved
  <2> HIDE DEF n, m
  <2>4. n.vpn.secrets # NoSecrets
    <3>1. NoSecrets["password"] = ""
      BY DEF NoSecrets, SecretKeys
    <3> QED BY <2>1, <2>3, <3>1
  <2>5. m.vpn = n.vpn
    BY <1>2, <2>4 DEF VpnUpdated
  <2>6. PasswordOf(m) = Password(form)
    BY <1>4, <2>1, <2>3, <2>5 DEF PasswordOf
  <2> QED BY <2>6 DEF m, n
<1> QED BY <1>3, <1>4

LEMMA SecretsStep ==
  ASSUME IInv, LInv, TInv, FInv, [Next]_vars, Commits, Fresh
  PROVE  /\ ~touched /\ loaded \in OnOffer /\ Blank(form)
               => SecretsOf(stored') = SecretsOf(stored)
         /\ Password(form) # "" => PasswordOf(stored') = Password(form)
<1> DEFINE m == Merged(stored, Saved(live, form).profile)
<1>1. /\ stored \in Profile /\ live \in Profile /\ form \in Form
      /\ Saved(live, form).ok /\ stored' = m
  BY CommitStep
<1>2. ~isNew /\ dialog = "shown"
  BY DEF Commits
<1>3. ~touched /\ loaded \in OnOffer /\ Blank(form) => SecretsOf(m) = SecretsOf(stored)
  BY <1>1, <1>2, BlankKept
<1>4. Password(form) # "" => PasswordOf(m) = Password(form)
  BY <1>1, <1>2, PasswordStored
<1> HIDE DEF m
<1> QED BY <1>1, <1>3, <1>4

-----------------------------------------------------------------------------

\* saveProfile and commit_changes: the fields of the editor come back the next time the
\* profile is opened, for any profiles, entries and failures before.
THEOREM SavesShow == Spec => SavedIsShown
<1>1. IInv /\ LInv /\ TInv /\ FInv /\ [Next]_vars
        => [Commits => AlwaysShown(stored') /\ (Fresh => FreshlyShown(stored'))]_vars
  BY ShownStep
<1> QED BY <1>1, InitEstablishes, Inductive, ReportsInit, ReportsInductive, TypesInit,
           TypesInductive, FollowsInit, FollowsInductive, PTL DEF Spec, SavedIsShown

\* wifiSecurityApply and saveProfile: blank secret fields keep every secret of a profile,
\* a password that is typed is stored as the password of its type.
THEOREM SecretsSurvive == Spec => KeptOrReplaced
<1>1. IInv /\ LInv /\ TInv /\ FInv /\ [Next]_vars
        => [Commits /\ Fresh
            => /\ ~touched /\ loaded \in OnOffer /\ Blank(form)
                     => SecretsOf(stored') = SecretsOf(stored)
               /\ Password(form) # "" => PasswordOf(stored') = Password(form)]_vars
  BY SecretsStep
<1> QED BY <1>1, InitEstablishes, Inductive, ReportsInit, ReportsInductive, TypesInit,
           TypesInductive, FollowsInit, FollowsInductive, PTL DEF Spec, KeptOrReplaced
==============================================================================
