----------------------------- MODULE MCSettings -----------------------------
(***************************************************************************)
(* A small instance of the settings.                                       *)
(***************************************************************************)
EXTENDS SettingsProps, TLC

CONSTANTS
    place, auto, expand, available, latest,
    files, notification, about,
    blank, tmp, folder, slashed, zero, one, version

GroupOfKey == (place :> files @@ auto :> files @@ expand :> notification
               @@ available :> about @@ latest :> about)
AllowedOf == (place :> {blank, tmp, folder, slashed} @@ auto :> {zero, one}
              @@ expand :> {one} @@ available :> {zero, one}
              @@ latest :> {blank, version, one})
SlashOf == (blank :> blank @@ tmp :> tmp @@ folder :> slashed @@ slashed :> slashed)
BuiltIn == (place :> blank @@ auto :> one @@ expand :> one @@ available :> zero
            @@ latest :> blank)
HeardFirst == (auto :> one @@ expand :> zero)
OlderFiles ==
    {[BuiltIn EXCEPT ![place] = Absent, ![available] = one, ![latest] = one],
     [BuiltIn EXCEPT ![available] = Absent]}

\* Constraint: one thing has got in the way at most.
Explored == Cardinality(mishaps) <= 1 /\ mishaps \cap {"overlap", "failed"} = {}
=============================================================================
