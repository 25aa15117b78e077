-------------------------- MODULE MCShareOwnership --------------------------
(* A small instance of ShareOwnership for TLC: one user imported one key   *)
(* twice, and the network attested another contribution for the second;    *)
(* the share of the first is re-encrypted and made public; a migrated      *)
(* dWallet has an attached share.                                          *)
EXTENDS ShareOwnership

CONSTANTS A, B, old, new, stranger

DWallet(session, key, imported, holder, contribution, migration) ==
    LET output == [key |-> key, contribution |-> contribution] IN
    [kind |-> "dwallet", session |-> session, sender |-> "sender", key |-> key,
     imported |-> imported, holder |-> holder, migration |-> migration,
     output |-> output, encryptionKey |-> holder,
     share |-> [output |-> output, to |-> holder], signature |-> None]
Share(session, dwallet, holder) ==
    [kind |-> "encrypted_share", session |-> session, sender |-> dwallet.sender,
     key |-> dwallet.key, digest |-> dwallet, holder |-> holder,
     encryptionKey |-> holder, share |-> [output |-> dwallet.output, to |-> holder]]
Public(session, dwallet) ==
    [kind |-> "public_share", session |-> session, sender |-> dwallet.sender,
     key |-> dwallet.key, digest |-> dwallet, fits |-> TRUE]
By(signer, data) == [kind |-> data.kind, data |-> data, signer |-> signer]

Import1 == DWallet("import1", "key", TRUE, A, "a1", FALSE)
Import2 == DWallet("import2", "key", TRUE, A, "other", FALSE)
Migrated == DWallet("migration", "classic", FALSE, None, "a3", TRUE)

AllSigned ==
    {By(old, Import1), By(old, Share("import1", Import1, A)),
     By(new, Import2), By(new, Share("import2", Import2, A)),
     By(new, Share("reencrypt", Import1, B)), By(new, Public("publish", Import1)),
     By(stranger, Share("import2", Import2, B)),
     By(new, Migrated), By(new, Share("attach", Migrated, A))}

Request(dwallet, contribution) ==
    [session |-> dwallet.session, sender |-> dwallet.sender, imported |-> dwallet.imported,
     networkKey |-> old, contribution |-> contribution,
     share |-> dwallet.share, signature |-> None]
AllSent ==
    [user \in Users |->
        IF user = A THEN {Request(Import1, "a1"), Request(Import2, "a2")} ELSE {}]
MigratedShares == {<<Migrated, A>>}
AllOld == [session \in Sessions |-> old]
=============================================================================
