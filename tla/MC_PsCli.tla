------------------------------- MODULE MC_PsCli -------------------------------
(* Flag words for checking the pscli handlers: each enum flag may be left  *)
(* out, typed as a documented word, as an alias, with capitals, or wrong.  *)
EXTENDS PsCli

MCMediaIn == {Unset, Typed("lightning", FALSE), Typed("blockchain", FALSE),
              Typed("blockchain", TRUE), Typed("bl", FALSE)}
MCAssetIn == {Unset, Typed("btc", TRUE), Typed("dash", FALSE), Typed("doge", FALSE)}
MCStatusIn == {Unset, Typed("pending", TRUE), Typed("done", FALSE)}
MCDirectionIn == {Typed("incoming", FALSE), Typed("sideways", FALSE)}
MCSystemIn == {Unset, Typed("other", FALSE)}
\* A free-text flag left out, given a word, or given empty (--amount="").
MCTextIn == {Unset, Typed("x", FALSE), Typed("", FALSE)}
\* No extra flag, or --description, which only createreceipt declares.
MCStrayIn == {"none", "description"}
=============================================================================
