-------------------------------- MODULE PsCli ---------------------------------
(***************************************************************************)
(* The pscli command handlers (src/cmd/pscli/commands.go).  Each handler   *)
(* reads its flags, turns the media, asset, status, direction and system   *)
(* strings into protocol enums, returns an error at the first missing or   *)
(* invalid flag, and otherwise sends one request to the payment server and *)
(* prints the response as JSON.                                            *)
(*                                                                         *)
(* A flag as typed is a record: set (ctx.IsSet), w (the word) and caps     *)
(* (whether it was typed with capitals).  strings.ToLower clears caps; a   *)
(* word compared without ToLower matches only when typed in lower case.    *)
(* Free-text flags (amount, receipt, description, id) pass through.        *)
(***************************************************************************)
EXTENDS Naturals, FiniteSets

CONSTANTS
  MediaIn,    \* media flags a user may type
  AssetIn,    \* asset flags
  StatusIn,   \* status flags
  DirectionIn,\* direction flags
  SystemIn,   \* system flags
  TextIn,     \* free-text flags (amount, receipt, description, id)
  StrayIn     \* "none", or the name of one more flag typed on the command line

VARIABLES
  out,        \* outcome of the last command run
  verdicts    \* history: [w, caps, ok] for every media flag a handler parsed

vars == <<out, verdicts>>

Unset == [set |-> FALSE, w |-> "", caps |-> FALSE]
Typed(w, caps) == [set |-> TRUE, w |-> w, caps |-> caps]

\* The zero value of an enum: the field of a request left unset.
Zero == "ZERO"

ParseMediaExact(v) ==
  IF v.caps THEN "invalid"
  ELSE CASE v.w = "blockchain" -> "BLOCKCHAIN"
         [] v.w = "lightning"  -> "LIGHTNING"
         [] OTHER              -> "invalid"

\* switch stringMedia { case "bl", "blockchain": ... case "li", "lightning": ... }
ParseMediaAlias(v) ==
  IF v.caps THEN "invalid"
  ELSE CASE v.w \in {"bl", "blockchain"} -> "BLOCKCHAIN"
         [] v.w \in {"li", "lightning"}  -> "LIGHTNING"
         [] OTHER                        -> "invalid"

\* switch strings.ToLower(ctx.String("asset")) { ... }
ParseAsset(v) ==
  CASE v.w \in {"btc", "bitcoin"}     -> "BTC"
    [] v.w \in {"bch", "bitcoincash"} -> "BCH"
    [] v.w \in {"ltc", "litecoin"}    -> "LTC"
    [] v.w \in {"eth", "ethereum"}    -> "ETH"
    [] v.w = "dash"                   -> "DASH"
    [] OTHER                          -> "invalid"

\* switch strings.ToLower(flag) { case strings.ToLower(Enum_X.String()): ... }
\* for the status, direction and system filters of listpayments.
ParseLowerEnum(v, names) == IF v.w \in names THEN v.w ELSE "invalid"

Text(v) == IF v.set THEN v.w ELSE ""

NoRequest == [rpc |-> "none", media |-> Zero, asset |-> Zero, amount |-> "",
              description |-> "", receipt |-> "", id |-> "",
              status |-> Zero, direction |-> Zero, system |-> Zero]

\* The flags each cli.Command declares, marked as their Usage text marks
\* them: "(optional)" or not.
createReceiptCommand ==
  [asset |-> "required", media |-> "required", amount |-> "optional",
   description |-> "optional"]
validateReceiptCommand ==
  [receipt |-> "required", asset |-> "required", media |-> "required",
   amount |-> "optional"]
balanceCommand == [asset |-> "optional", media |-> "optional"]
estimateFeeCommand ==
  [asset |-> "required", media |-> "required", amount |-> "optional",
   receipt |-> "optional"]
sendPaymentCommand ==
  [asset |-> "required", media |-> "required", amount |-> "optional",
   receipt |-> "required"]
paymentByIDCommand == [id |-> "required"]
paymentByReceiptCommand == [receipt |-> "required"]
listPaymentsCommand ==
  [asset |-> "required", media |-> "required", direction |-> "required",
   status |-> "required", system |-> "required"]

\* The words the handlers' error messages list as supported.
AdvertisedWords ==
  [media     |-> {"blockchain", "lightning"},
   asset     |-> {"btc", "bch", "dash", "eth", "ltc"},
   status    |-> {"waiting", "pending", "completed", "failed"},
   direction |-> {"incoming", "outgoing"},
   system    |-> {"internal", "external"}]

\* An invocation as the Usage texts and error messages document it: every
\* flag it gives is declared, every flag not marked optional is given, and
\* every enum flag is typed as one of the advertised words.
Documented(usage, flags, stray) ==
  /\ stray \in DOMAIN usage \cup {"none"}
  /\ \A f \in DOMAIN usage :
       /\ usage[f] = "required" => flags[f].set
       /\ flags[f].set /\ f \in DOMAIN AdvertisedWords =>
            flags[f].w \in AdvertisedWords[f] /\ ~ flags[f].caps

\* A media flag that was given and parsed, for the history.
Verdict(v, parsed) ==
  IF v.set THEN {[w |-> v.w, caps |-> v.caps, ok |-> parsed # "invalid"]} ELSE {}

(***************************************************************************)
(* Running a command.  cli.App parses the command line against the         *)
(* command's declared flags first and fails on an undeclared one ("flag    *)
(* provided but not defined") before the handler runs.  Otherwise the      *)
(* outcome is the handler's first flag error, or the request sent, after   *)
(* which the RPC fails or the response is printed (printRespJSON prints a  *)
(* decode error instead and the command still succeeds).                   *)
(***************************************************************************)
Run(cmd, usage, flags, stray, flagErr, req, pm) ==
  LET undeclared == stray \notin DOMAIN usage \cup {"none"}
      doc        == Documented(usage, flags, stray)
  IN  /\ IF undeclared \/ flagErr # "none"
         THEN out' = [cmd |-> cmd, result |-> "error", documented |-> doc,
                      req |-> NoRequest]
         ELSE \E r \in {"rpcError", "printed", "decodeFailed"} :
                out' = [cmd |-> cmd, result |-> r, documented |-> doc, req |-> req]
      /\ verdicts' = verdicts \cup
           IF undeclared \/ "media" \notin DOMAIN usage THEN {}
           ELSE Verdict(flags["media"], pm)

\* The checks shared by the handlers whose media and asset are required.
RequiredMediaAssetErr(m, pm, a) ==
  CASE ~ m.set                    -> "media missing"
    [] pm = "invalid"             -> "invalid media"
    [] ~ a.set                    -> "asset missing"
    [] ParseAsset(a) = "invalid"  -> "invalid asset"
    [] OTHER                      -> "none"

createReceipt ==
  \E m \in MediaIn, a \in AssetIn, amt \in TextIn, d \in TextIn, x \in StrayIn :
    LET pm == ParseMediaExact(m)
    IN  Run("createreceipt", createReceiptCommand,
            [asset |-> a, media |-> m, amount |-> amt, description |-> d], x,
            RequiredMediaAssetErr(m, pm, a),
            [NoRequest EXCEPT !.rpc = "CreateReceipt", !.media = pm,
                              !.asset = ParseAsset(a), !.amount = Text(amt),
                              !.description = Text(d)],
            pm)

validateReceipt ==
  \E m \in MediaIn, a \in AssetIn, amt \in TextIn, rc \in TextIn, x \in StrayIn :
    LET pm  == ParseMediaExact(m)
        err == RequiredMediaAssetErr(m, pm, a)
    IN  Run("validatereceipt", validateReceiptCommand,
            [receipt |-> rc, asset |-> a, media |-> m, amount |-> amt], x,
            IF err = "none" /\ ~ rc.set THEN "receipt missing" ELSE err,
            [NoRequest EXCEPT !.rpc = "ValidateReceipt", !.media = pm,
                              !.asset = ParseAsset(a), !.amount = Text(amt),
                              !.receipt = Text(rc)],
            pm)

\* media and asset are optional; an unset one stays the zero enum.
balance ==
  \E m \in MediaIn, a \in AssetIn, x \in StrayIn :
    LET pm == IF m.set THEN ParseMediaExact(m) ELSE Zero
        pa == IF a.set THEN ParseAsset(a) ELSE Zero
    IN  Run("balance", balanceCommand, [asset |-> a, media |-> m], x,
            CASE pm = "invalid" -> "invalid media"
              [] pa = "invalid" -> "invalid asset"
              [] OTHER          -> "none",
            [NoRequest EXCEPT !.rpc = "Balance", !.media = pm, !.asset = pa],
            pm)

estimateFee ==
  \E m \in MediaIn, a \in AssetIn, amt \in TextIn, rc \in TextIn, x \in StrayIn :
    LET pm == ParseMediaAlias(m)
    IN  Run("estimatefee", estimateFeeCommand,
            [asset |-> a, media |-> m, amount |-> amt, receipt |-> rc], x,
            RequiredMediaAssetErr(m, pm, a),
            [NoRequest EXCEPT !.rpc = "EstimateFee", !.media = pm,
                              !.asset = ParseAsset(a), !.amount = Text(amt),
                              !.receipt = Text(rc)],
            pm)

\* The amount may be left out only for lightning, where the invoice can
\* carry it.
sendPayment ==
  \E m \in MediaIn, a \in AssetIn, amt \in TextIn, rc \in TextIn, x \in StrayIn :
    LET pm  == ParseMediaAlias(m)
        err == RequiredMediaAssetErr(m, pm, a)
    IN  Run("sendpayment", sendPaymentCommand,
            [asset |-> a, media |-> m, amount |-> amt, receipt |-> rc], x,
            CASE err # "none"                         -> err
              [] ~ amt.set /\ pm = "BLOCKCHAIN"       -> "amount missing"
              [] ~ rc.set                             -> "receipt missing"
              [] OTHER                                -> "none",
            [NoRequest EXCEPT !.rpc = "SendPayment", !.media = pm,
                              !.asset = ParseAsset(a), !.amount = Text(amt),
                              !.receipt = Text(rc)],
            pm)

paymentByID ==
  \E id \in TextIn, x \in StrayIn :
    Run("paymentbyid", paymentByIDCommand, [id |-> id], x,
        IF id.set THEN "none" ELSE "id missing",
        [NoRequest EXCEPT !.rpc = "PaymentByID", !.id = Text(id)], Zero)

paymentByReceipt ==
  \E rc \in TextIn, x \in StrayIn :
    Run("paymentbyreceipt", paymentByReceiptCommand, [receipt |-> rc], x,
        IF rc.set THEN "none" ELSE "receipt missing",
        [NoRequest EXCEPT !.rpc = "PaymentsByReceipt", !.receipt = Text(rc)], Zero)

\* Every filter is optional; each given one must parse.
listPayments ==
  \E m \in MediaIn, a \in AssetIn, st \in StatusIn, dir \in DirectionIn,
     sys \in SystemIn, x \in StrayIn :
    LET pm   == IF m.set THEN ParseMediaAlias(m) ELSE Zero
        pa   == IF a.set THEN ParseAsset(a) ELSE Zero
        pst  == IF st.set THEN ParseLowerEnum(st, AdvertisedWords.status) ELSE Zero
        pdir == IF dir.set THEN ParseLowerEnum(dir, AdvertisedWords.direction) ELSE Zero
        psys == IF sys.set THEN ParseLowerEnum(sys, AdvertisedWords.system) ELSE Zero
    IN  Run("listpayments", listPaymentsCommand,
            [asset |-> a, media |-> m, direction |-> dir, status |-> st,
             system |-> sys], x,
            CASE pm = "invalid"   -> "invalid media"
              [] pa = "invalid"   -> "invalid asset"
              [] pst = "invalid"  -> "invalid status"
              [] pdir = "invalid" -> "invalid direction"
              [] psys = "invalid" -> "invalid system"
              [] OTHER            -> "none",
            [NoRequest EXCEPT !.rpc = "ListPayments", !.media = pm, !.asset = pa,
                              !.status = pst, !.direction = pdir, !.system = psys],
            pm)

Init ==
  /\ out = [cmd |-> "none", result |-> "none", documented |-> FALSE, req |-> NoRequest]
  /\ verdicts = {}

Next ==
  \/ createReceipt
  \/ validateReceipt
  \/ balance
  \/ estimateFee
  \/ sendPayment
  \/ paymentByID
  \/ paymentByReceipt
  \/ listPayments

Spec == Init /\ [][Next]_vars

-----------------------------------------------------------------------------
Sent == out.result \in {"rpcError", "printed", "decodeFailed"}

OnChainPaymentHasAmount ==
  Sent /\ out.req.rpc = "SendPayment" /\ out.req.media = "BLOCKCHAIN" =>
    out.req.amount # ""

(***************************************************************************)
(* A command line written as the help documents it (declared flags only,   *)
(* every flag whose Usage is not marked "(optional)" given, enum flags     *)
(* typed as the words the error messages list) is not rejected by the      *)
(* command's own flag checks.                                              *)
(***************************************************************************)
AdvertisedInvocationsAccepted ==
  out.documented => out.result # "error"

=============================================================================
