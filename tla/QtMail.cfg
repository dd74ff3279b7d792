CONSTANTS
  m1 = m1
  m2 = m2
  r1 = r1
  r2 = r2
  r3 = r3
  Mails <- MCMails
  Recipients <- MCRecipients
  Types = {"Tcp", "Ssl", "Tls"}
  Methods = {"plain", "login"}
  MaxMails = 2
SPECIFICATION Spec
INVARIANTS SentMeansStored NothingExposed InStep
PROPERTY EverySignalled
