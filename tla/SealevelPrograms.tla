-------------------------- MODULE SealevelPrograms --------------------------
(***************************************************************************)
(* The programs of the Sealevel chains that the agents read, side by side: *)
(* the Mailbox with its ISMs and recipients, the interchain gas paymaster  *)
(* and the announcements of validators.  They share no account, so each    *)
(* goes its own way.                                                       *)
(***************************************************************************)
EXTENDS SealevelTestRecipient, SealevelIgp, ValidatorAnnounce

ProgramsSpec == Spec /\ IgpSpec /\ AnnounceSpec
-----------------------------------------------------------------------------
(* What the relayer finds on a Sealevel chain by counting: the dispatched, *)
(* delivered and paid accounts have the sequence numbers 0, 1, 2, ...,     *)
(* each once, and an announcement is taken only once.                      *)
RecordsExact ==
    DispatchedIndexExact /\ ProcessedIndexExact /\ PaymentIndexExact /\ AnnouncedOnce
=============================================================================
