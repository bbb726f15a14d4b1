----------------------------- MODULE SecretAgent -----------------------------
(***************************************************************************)
(* nm/nmsecretagent.c, nm/secrets_prompt.cpp and secretsdialog.cpp.  A     *)
(* request is answered by the very call that receives it: the handler      *)
(* shows a modal dialog and returns when it is closed.  The dialog's event *)
(* loop pumps GLib, so that the next request comes in on top of it and     *)
(* shows a dialog of its own: dialogs are closed innermost first, while    *)
(* NetworkManager waits for all of the answers.                            *)
(***************************************************************************)
EXTENDS Naturals, Sequences, FiniteSets

CONSTANTS
    Ids,          \* requests, in the order in which they are sent
    RequestOf,    \* what each asks for
    TypedSecrets, \* what the user may type, "" for nothing
    TypedIdentities

\* A request: the name of the setting, whether the profile has it, its key
\* management (if it is the Wi-Fi security), its identity, and the hints.
Settings == {"802-11-wireless-security", "802-1x", "vpn", "pppoe", "gsm"}
Mgmts == {"", "none", "wpa-psk", "sae", "owe", "wpa-eap", "ieee8021x"}
KeysOf8021x == {"password", "pin", "private-key-password", "phase2-private-key-password"}
Hints == {"x-vpn-message", "identity", "psk", "wep-key0", "wep-key1"} \cup KeysOf8021x

ASSUME SecretAgentAssumption ==
    /\ IsFiniteSet(Ids) /\ Ids = 1..Cardinality(Ids)
    /\ RequestOf \in [Ids -> [setting : Settings, present : BOOLEAN, mgmt : Mgmts,
                              identity : {"", "user"}, hints : Seq(Hints)]]
    /\ "" \in TypedSecrets /\ "" \in TypedIdentities

\* Key managements whose secret is a key that is shared.
SharedKey(mgmt) == mgmt \in {"wpa-psk", "sae", "owe"}

\* What NetworkManager names in the hints of a request is of the setting it is for;
\* the secrets of a VPN are its plugin's business.
MayName(r) ==
    CASE r.setting = "802-11-wireless-security" ->
            IF SharedKey(r.mgmt) THEN {"psk"} ELSE {"wep-key0", "wep-key1"}
      [] r.setting = "802-1x" -> {"identity"} \cup KeysOf8021x
      [] r.setting = "pppoe" -> {"password"}
      [] OTHER -> Hints

ASSUME HintsAssumption ==
    \A r \in Ids : \A i \in DOMAIN RequestOf[r].hints :
        RequestOf[r].hints[i] \in MayName(RequestOf[r]) \cup {"x-vpn-message"}

VARIABLES
    sent,         \* requests NetworkManager has sent
    received,     \* requests whose handler has started
    dialogs,      \* requests whose dialogs are open, the innermost last
    answer,       \* the answer to each request, or NoAnswer
    cancelled,    \* requests that NetworkManager has given up
    typed         \* history: what the user has entered in the dialog of a request

vars == <<sent, received, dialogs, answer, cancelled, typed>>

NoAnswer == [is |-> "none"]
Refused(reason) == [is |-> reason]
Secret(setting, key, identity, secret) ==
    [is |-> "secret", setting |-> setting, key |-> key, identity |-> identity, secret |-> secret]

-----------------------------------------------------------------------------
(* The handlers.                                                           *)

\* The hints that are not a message of a VPN plugin.
KeyHints(hints) == {i \in DOMAIN hints : hints[i] # "x-vpn-message"}

\* first_secret_hint
FirstHint(r, default) ==
    LET keys == KeyHints(r.hints)
    IN IF keys = {} THEN default ELSE r.hints[CHOOSE i \in keys : \A j \in keys : i <= j]

\* The key that the dialog asks for.
AskedKey(r) ==
    CASE r.setting = "802-11-wireless-security" ->
            IF SharedKey(r.mgmt) THEN "psk" ELSE FirstHint(r, "wep-key0")
      [] OTHER -> FirstHint(r, "password")

AsksIdentity(r) ==
    r.setting = "802-1x"
      /\ (r.identity = "" \/ \E i \in DOMAIN r.hints : r.hints[i] = "identity")

\* The key under which the answer has it.
AnsweredKey(r) ==
    LET key == AskedKey(r)
    IN CASE r.setting = "802-11-wireless-security" ->
               IF key \in {"wep-key0", "wep-key1"} THEN key ELSE "psk"
         [] r.setting = "802-1x" -> IF key \in KeysOf8021x THEN key ELSE "password"
         [] r.setting = "vpn" -> key
         [] OTHER -> "password"

\* Requests that are refused at once.
RefusedAtOnce(r) ==
    CASE ~r.present -> Refused("invalid")
      [] r.present /\ r.setting = "gsm" -> Refused("unsupported")
      [] r.present /\ r.setting = "802-11-wireless-security"
           /\ r.mgmt \in {"wpa-eap", "ieee8021x"} -> Refused("canceled")
      [] OTHER -> NoAnswer

Built(r, identity, secret) ==
    Secret(r.setting, AnsweredKey(r), IF AsksIdentity(r) THEN identity ELSE "", secret)

Answers ==
    {Refused("invalid"), Refused("unsupported"), Refused("canceled")}
      \cup {Built(RequestOf[d[1]], d[2], d[3]) : d \in Ids \X TypedIdentities \X (TypedSecrets \ {""})}

TypeOK ==
    /\ sent \subseteq Ids /\ received \subseteq sent /\ cancelled \subseteq sent
    /\ dialogs \in Seq(received)
    /\ answer \in [Ids -> Answers \cup {NoAnswer}]
    /\ typed \in [Ids -> TypedSecrets]

-----------------------------------------------------------------------------
Init ==
    /\ sent = {} /\ received = {} /\ dialogs = <<>> /\ cancelled = {}
    /\ answer = [r \in Ids |-> NoAnswer] /\ typed = [r \in Ids |-> ""]

\* NetworkManager sends the next request; it need not wait for an answer.
Send ==
    /\ sent # Ids
    /\ sent' = sent \cup {Cardinality(sent) + 1}
    /\ UNCHANGED <<received, dialogs, answer, cancelled, typed>>

\* get_secrets, in whatever loop the pump runs, up to the dialog.
GetSecrets ==
    /\ received # sent
    /\ LET r == Cardinality(received) + 1
           refused == RefusedAtOnce(RequestOf[r])
       IN /\ received' = received \cup {r}
          /\ answer' = [answer EXCEPT ![r] = refused]
          /\ dialogs' = IF refused = NoAnswer THEN Append(dialogs, r) ELSE dialogs
    /\ UNCHANGED <<sent, cancelled, typed>>

\* Mutant: the callback of the latest request is kept in place of the handler's own.
Answering_Latest(r) == CHOOSE l \in received : \A m \in received : m <= l

Answering(r) == r

\* Mutant: an empty secret is one.
Given_Any(secret) == TRUE

\* runSecretsDialog: an empty secret is a refusal.
Given(secret) == secret # ""

\* The innermost dialog is closed, and its handler answers.
Close(identity, secret, accepted) ==
    /\ dialogs # <<>>
    /\ LET r == dialogs[Len(dialogs)]
       IN /\ typed' = [typed EXCEPT ![r] = secret]
          /\ answer' = [answer EXCEPT ![Answering(r)] =
                          IF accepted /\ Given(secret) THEN Built(RequestOf[r], identity, secret)
                                                     ELSE Refused("canceled")]
    /\ dialogs' = SubSeq(dialogs, 1, Len(dialogs) - 1)
    /\ UNCHANGED <<sent, received, cancelled>>

Closed ==
    \E identity \in TypedIdentities, secret \in TypedSecrets, accepted \in BOOLEAN :
        Close(identity, secret, accepted)

\* NetworkManager gives a request up; cancel_get_secrets does nothing, the dialog
\* stays and its answer, late, is sent all the same.
Cancel ==
    /\ \E r \in sent \ cancelled :
          answer[r] = NoAnswer /\ cancelled' = cancelled \cup {r}
    /\ UNCHANGED <<sent, received, dialogs, answer, typed>>

Next == Send \/ GetSecrets \/ Closed \/ Cancel

\* The pump runs from a timer, in every loop; the user closes the dialogs.
Fairness == WF_vars(GetSecrets) /\ WF_vars(Closed)

Spec == Init /\ [][Next]_vars /\ Fairness

-----------------------------------------------------------------------------
(* Properties.                                                             *)

\* The key that a profile's setting lacks: the first that NetworkManager names, else
\* the usual one.
Wanted(r) ==
    LET named == {r.hints[i] : i \in DOMAIN r.hints} \ {"x-vpn-message", "identity"}
    IN IF named # {} THEN CHOOSE h \in named : \E i \in DOMAIN r.hints :
                             r.hints[i] = h /\ \A j \in 1..(i - 1) : r.hints[j] \notin named
       ELSE IF r.setting # "802-11-wireless-security" THEN "password"
       ELSE IF SharedKey(r.mgmt) THEN "psk" ELSE "wep-key0"

IdentityFirst(r) == FirstHint(r, "password") = "identity"

\* The secret in an answer is the one typed in the dialog of that request, for
\* the setting asked for.
OwnSecret ==
    \A r \in Ids : answer[r].is = "secret" =>
        answer[r].secret = typed[r] /\ answer[r].setting = RequestOf[r].setting

\* It goes under the key that the setting lacks (a request that names the
\* identity first is another matter).
UnderWantedKey ==
    \A r \in Ids : answer[r].is = "secret" =>
        IdentityFirst(RequestOf[r]) \/ answer[r].key = Wanted(RequestOf[r])

\* Both hold however the dialogs nest, and whatever NetworkManager has given up
\* meanwhile.
AnswerIsItsOwn == OwnSecret /\ UnderWantedKey

\* The handlers implement the agent NetworkManager expects.
Agent == INSTANCE SecretRequests
            WITH Unanswered <- NoAnswer, asked <- sent, answered <- answer

AgentSpec == Agent!Spec
=============================================================================
