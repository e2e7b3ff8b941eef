SPECIFICATION Spec
CONSTANTS
  None = None
  Garbage = Garbage
  Tabs = {t1, t2}
  Wallets = {w1, w2}
  Passwords <- MCPasswords
  Lifetime = 1
  Views <- MCViews
INVARIANTS TypeOK KeysMatchWallets ScreensApart
PROPERTIES VaultRefined PhraseIsShown 
