SPECIFICATION FairSpec
CONSTANTS
  NoRun = NoRun
  Requests = {1, 2}
  Names = {1, 2}
  Mails = {1}
  NameOf <- NamesOf
  MailOf <- MailsOf
  MaxDeliveries <- DeliveriesOf
  MayShare <- OneShared
CHECK_DEADLOCK FALSE
INVARIANTS UniqueAccounts SuccessIsStored ConflictIsReal
PROPERTIES HandlersEnd AccountsAreAtomic
