-------------------------------- MODULE MCWallet --------------------------------
(***************************************************************************)
(* Small instances of Wallet: two users with an address each, a deposit    *)
(* with dust that both submit, a plain transfer behind one of another      *)
(* token, two withdrawals of one user.                                     *)
(***************************************************************************)
EXTENDS Wallet, TLC

CONSTANTS ana, ben, anasAddress, bensAddress, deposit, transfer,
          byAna, byBen, ofTransfer, small, large, loss, bet

Log(token, value) == [token |-> token, toVault |-> TRUE, value |-> value]

SubmittedBy == (byAna :> ana) @@ (byBen :> ben) @@ (ofTransfer :> ben)
SubmittedTx == (byAna :> deposit) @@ (byBen :> deposit) @@ (ofTransfer :> transfer)
Senders == (deposit :> anasAddress) @@ (transfer :> bensAddress)
ThroughContract == (deposit :> TRUE) @@ (transfer :> FALSE)
Logs == (deposit :> <<Log(TRUE, 35)>>) @@ (transfer :> <<Log(FALSE, 99), Log(TRUE, 10)>>)
Owners == [w \in Withdrawals |-> ana]
Amounts == (small :> 1) @@ (large :> 3)
Targets == [w \in Withdrawals |-> anasAddress]
Bettors == bet :> ana
Stakes == bet :> 1
Wins == bet :> 2
LossOfAna == loss :> (anasAddress :> -1 @@ bensAddress :> 0)
ToVault == loss :> 1
===============================================================================
