SPECIFICATION BootFairSpec
CONSTANTS
  MaxScan = 2
  NULL = NULL
  Fonts <- MCFonts
  Framebuffers <- MCFramebuffers
  LoaderGdt <- MCLoaderGdt
  TssAddress <- MCTssAddress
  StubAddress <- MCStubAddress
  LoadedText <- MCLoadedText
  FailedText <- MCFailedText
  InitializingText <- MCInitializingText
  InitializedText <- MCInitializedText
  WelcomeText <- MCWelcomeText
INVARIANTS TypeOK BootTypeOK InterruptsReady DoneMeansEnabled TssLoaded GateServesKeyboard GlyphsOfTheFont ConsoleReady
PROPERTIES ByteServed
