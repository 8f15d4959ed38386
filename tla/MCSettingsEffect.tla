-------------------------- MODULE MCSettingsEffect --------------------------
(***************************************************************************)
(* What a comment says of set_voice, on the instance of MCSettings.        *)
(***************************************************************************)
EXTENDS Settings

MCUrls == {"a"}
MCHost == [u \in MCUrls |-> u]
MCOwn == Endpoint("own", "own key")
=============================================================================
