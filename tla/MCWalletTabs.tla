---------------------------- MODULE MCWalletTabs ----------------------------
(***************************************************************************)
(* Two tabs of a browser, two wallets, a strong password and one that only *)
(* an import accepts.                                                      *)
(***************************************************************************)
EXTENDS WalletTabs

StrongPassword == [length |-> 8, mixed |-> TRUE, digit |-> TRUE,
                   special |-> TRUE, common |-> FALSE]
CommonPassword == [StrongPassword EXCEPT !.length = 12, !.special = FALSE,
                                         !.common = TRUE]

MCPasswords == {StrongPassword, CommonPassword}
MCViews == {"dashboard", "reveal_secret", "logout_confirm"}
=============================================================================
