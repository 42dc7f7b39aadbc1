SPECIFICATION BootSpec
CONSTANTS
  MaxScan = 0
  NULL = NULL
  Fonts <- MCFonts
  Framebuffers <- MCFramebuffers
  LoaderGdt <- MCLoaderGdt
  TssAddress <- MCTssAddress
  StubAddress <- MCStubAddress
  LoadedText <- MCLoadedText
  FailedText <- MCFailedText
  InitializingText <- MCInitializingText
  InitializedText <- MCInitializedText
  WelcomeText <- MCWelcomeText
INVARIANTS TssBase
