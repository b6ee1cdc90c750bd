\* Two overlapping calls everywhere; two codes, three tokens of two browsers, two
\* enrollments and two challenges.
SPECIFICATION AccountsSpec
CONSTANTS
  MaxCodes = 2
  MaxOtpCalls = 2
  OtpMaxAttempts = 1
  MaxTokens = 3
  Browsers = {b1, b2}
  MaxRefreshes = 2
  MaxMishaps = 1
  MaxAdminCalls = 2
  MaxSecrets = 2
  MaxConfirms = 2
  MaxChallenges = 2
  LockoutThreshold = 2
  MaxPartnerCalls = 2
INVARIANTS
  AccountsTypeOK
  SignInSafe
  
  AdminSafe
  StandingSafe
SYMMETRY BrowsersAlike
CHECK_DEADLOCK FALSE
