------------------------- MODULE MCDWalletRequests -------------------------
(* A small instance of DWalletRequests for TLC: two calls at once on one   *)
(* client, each any of the plans below. For every session of a slot the    *)
(* network key signed the answer to each plan that the session may carry.  *)
EXTENDS DWalletRequests

CONSTANTS s1, s2

Sessions3 == [slot \in Slots |->
                 IF slot = s1 THEN <<"s1a", "s1b", "s1c">> ELSE <<"s2a", "s2b", "s2c">>]
Mains == {Sessions3[slot][3] : slot \in Slots}
PresignSessions == {Sessions3[slot][n] : slot \in Slots, n \in {1, 2}}

By(signer, data) == [kind |-> data.kind, data |-> data, signer |-> signer]

DWallet(session_, key, imported, holder, signature) ==
    LET output == [key |-> key, contribution |-> session_] IN
    [kind |-> "dwallet", session |-> session_, sender |-> "owner", key |-> key,
     imported |-> imported, holder |-> holder, migration |-> FALSE,
     output |-> output, encryptionKey |-> holder, signature |-> signature,
     share |-> IF holder = None THEN None ELSE [output |-> output, to |-> holder]]
Share(session_, dwallet, holder) ==
    [kind |-> "encrypted_share", session |-> session_, sender |-> dwallet.sender,
     key |-> dwallet.key, digest |-> dwallet, holder |-> holder,
     encryptionKey |-> holder, share |-> [output |-> dwallet.output, to |-> holder]]
Public(session_, dwallet) ==
    [kind |-> "public_share", session |-> session_, sender |-> dwallet.sender,
     key |-> dwallet.key, digest |-> dwallet, fits |-> TRUE, share |-> dwallet.output]
PresignData(session_, algorithm, boundTo, requester) ==
    [kind |-> "presign", session |-> session_, reference |-> session_,
     algorithm |-> algorithm, boundTo |-> boundTo, requester |-> requester]
Partial(session_, dwallet, used, message, signatureScheme, voucher) ==
    [kind |-> "partial_user_signature", session |-> session_, sender |-> "owner",
     key |-> dwallet.key, digest |-> dwallet, voucher |-> voucher,
     reference |-> used.reference, presign |-> used, message |-> message,
     scheme |-> signatureScheme]

\* Two dWallets of the user on the chain, one of them of an imported key.
First == DWallet("old1", "k1", FALSE, "me", NoSignature)
Imported == DWallet("old2", "k2", TRUE, "me", NoSignature)
OwnedAtStart == {First, Imported}
Object(dwallet, output) ==
    [attestation |-> By("net", dwallet), key |-> dwallet.key,
     imported |-> AskedOf(dwallet).session, output |-> output, networkKey |-> "net"]

OldPresign == PresignData("old3", "ecdsa", None, "request")
TheirPresign == PresignData("old4", "ecdsa", None, "them")
PresignObject(data) ==
    [reference |-> data.reference, attestation |-> Held(By("net", data), "net")]
OldPartial == Partial("old5", First, OldPresign, "m1", "sha", "v1")

Algorithms == [sha |-> "ecdsa", eddsa |-> "eddsa"]
Approvals ==
    [v1 |-> [dwallet |-> AskedOf(First), message |-> "m1", scheme |-> "sha"],
     v2 |-> [dwallet |-> AskedOf(Imported), message |-> "m2", scheme |-> "sha"]]

DkgSign(data) == [op |-> "signDuringDkg", presign |-> PresignObject(data),
                  message |-> "m1", scheme |-> "sha"]
CreatePlan(op, sign) == [op |-> op, networkKey |-> "net", sign |-> sign]
PresignPlan(dwallet) ==
    [op |-> "presign", networkKey |-> "net", dwallet |-> dwallet, algorithm |-> "ecdsa"]
SignPlan(op, dwallet, voucher, message, used) ==
    [op |-> op, networkKey |-> "net", dwallet |-> dwallet, voucher |-> voucher,
     message |-> message, scheme |-> None, presign |-> used]
CompletePlan(message) ==
    [op |-> "complete", networkKey |-> "net",
     partial |-> [attestation |-> Held(By("net", OldPartial), "net"),
                  dwallet |-> Held(By("net", First), "net"),
                  message |-> message, voucher |-> "v1"]]
SharePlan(op) ==
    [op |-> op, networkKey |-> "net", dwallet |-> Object(First, First.output), to |-> "them"]

AllPlans ==
    {CreatePlan("dkg", NoPlan), CreatePlan("dkg", DkgSign(OldPresign)),
     CreatePlan("dkg", DkgSign(TheirPresign)), CreatePlan("dkgPublic", NoPlan),
     CreatePlan("importedKey", NoPlan),
     PresignPlan(NoPlan), PresignPlan(Object(Imported, Imported.output)),
     SignPlan("sign", Object(First, First.output), "v1", "m1", PresignObject(OldPresign)),
     SignPlan("sign", Object(First, Imported.output), "v1", "m1", NoPresign),
     SignPlan("sign", Object(Imported, Imported.output), "v2", "m2", NoPresign),
     SignPlan("sign", Object(First, First.output), "v2", "m1", NoPresign),
     SignPlan("futureSign", Object(First, First.output), "v1", "m1", NoPresign),
     CompletePlan("m1"), CompletePlan("m2"),
     SharePlan("makePublic"), SharePlan("reEncrypt"),
     [op |-> "receive", networkKey |-> "net", dwallet |-> Object(Imported, Imported.output),
      share |-> By("net", Share("old6", Imported, "me"))]}

Key(session_) == IF session_ = "s1c" THEN "k3" ELSE "k4"
Main(session_) ==
    LET signature == SignatureOf(Key(session_), "m1", "sha") IN
    {DWallet(session_, Key(session_), FALSE, "me", NoSignature),
     DWallet(session_, Key(session_), FALSE, "me", signature),
     DWallet(session_, Key(session_), FALSE, None, NoSignature),
     DWallet(session_, Key(session_), TRUE, "me", NoSignature),
     Public(session_, First), Share(session_, First, "them")}
        \cup
    {Partial(session_, First, PresignData(used, "ecdsa", None, "request"), "m1", "sha", "v1") :
         used \in PresignSessions}
AllSigned ==
    {By("net", data) :
        data \in UNION {Main(main) : main \in Mains}
                   \cup {PresignData(s, "ecdsa", boundTo, "request") :
                             s \in PresignSessions, boundTo \in {None, "k2"}}
                   \cup {First, Imported, OldPresign, TheirPresign, OldPartial,
                         Share("old6", Imported, "me")}}
        \cup {By("stranger", DWallet(main, "k5", FALSE, "me", NoSignature)) : main \in Mains}
=============================================================================
