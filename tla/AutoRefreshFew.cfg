\* One wallet more than fits into one job.
CONSTANTS
  a = a
  b = b
  c = c
  NoWallet = NoWallet
  Wallets = {a, b, c}
  MaxWallets = 2
SPECIFICATION JobSpec
PROPERTIES EveryWalletServed
