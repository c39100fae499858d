-------------------------- MODULE PageEnvironment --------------------------
(***************************************************************************)
(* What a page of a workspace's child is told about the machine: the       *)
(* switches of the child (BuildCommandLine in workspace_launcher.cc), the  *)
(* CDP commands (profile_cdp_injector.cc) and the injected script          *)
(* (profile_cdp_injector.cc, anti_detection_engine.cc).                    *)
(*                                                                         *)
(* A script is the sequence of its statements that define what a page may  *)
(* read.  A statement gives a property a value, says whether it may be     *)
(* defined again and whether a failure is caught where it happens.         *)
(*                                                                         *)
(* Configured texts stand in the script as single-quoted literals.  The    *)
(* user agent and the names of the graphics card are escaped as JSON, and  *)
(* their quotes after that, so they read back as they are; in the time     *)
(* zone only quotes are escaped, and in the platform nothing is.           *)
(***************************************************************************)
EXTENDS WorkspaceData

CONSTANTS
  Literal(_),        \* what JavaScript reads of a text between single quotes
  NoLiteral,         \* or that the script has a syntax error there
  EscapeQuotes(_)    \* the text with a backslash before each single quote

\* Concatenated parts of a script, left out when their condition fails.
When(cond, part) == IF cond THEN part ELSE <<>>

\* defineProperty within try, final or configurable.
Final(p, v) == <<[prop |-> p, value |-> v, final |-> TRUE, caught |-> TRUE]>>
Define(p, v) == <<[prop |-> p, value |-> v, final |-> FALSE, caught |-> TRUE]>>

\* An assignment or a definition outside of try.
Assign(p, v) == <<[prop |-> p, value |-> v, final |-> FALSE, caught |-> FALSE]>>
FinalUncaught(p, v) == <<[prop |-> p, value |-> v, final |-> TRUE, caught |-> FALSE]>>

BothPositive(w) == w["screen_width"] > 0 /\ w["screen_height"] > 0

-----------------------------------------------------------------------------
(***************************************************************************)
(* The command line.                                                       *)
(***************************************************************************)

\* The switches that say something the script or a command says as well.
BuildCommandLine(w) ==
  [user_agent  |-> w["user_agent"],
   window_size |-> IF BothPositive(w) THEN <<w["screen_width"], w["screen_height"]>> ELSE <<>>]

-----------------------------------------------------------------------------
(***************************************************************************)
(* The injector's own overrides.                                           *)
(***************************************************************************)

JsPlatform(p) ==
  CASE p \in {"windows", ""} -> "Win32"
    [] p = "macos"           -> "MacIntel"
    [] p = "linux"           -> "Linux x86_64"
    [] OTHER                 -> p

GenerateNavigatorOverrides(w) ==
  Final("platform", Literal(JsPlatform(w["platform"])))
  \o Final("hardwareConcurrency",
           IF w["hardware_concurrency"] > 0 THEN w["hardware_concurrency"] ELSE 4)
  \o When(w["user_agent"] # "", Final("userAgent", w["user_agent"]))

\* The proxy answers for the size whatever its target says later.
GenerateScreenOverrides(w) ==
  LET width == IF w["screen_width"] > 0 THEN w["screen_width"] ELSE 1366
      height == IF w["screen_height"] > 0 THEN w["screen_height"] ELSE 768
  IN Final("screen", <<width, height>>)

-----------------------------------------------------------------------------
(***************************************************************************)
(* The anti-detection engine.                                              *)
(***************************************************************************)

\* _pcNoise: a fixed function of the seed and the index, clamped to a byte.
GeneratePRNGFunction(seed) == <<"noise", seed>>

GenerateCanvasProtector(seed) ==
  Assign("getImageData", GeneratePRNGFunction(seed))
  \o Assign("toDataURL", GeneratePRNGFunction(seed))

\* With neither name configured only the extension list is filtered; with one,
\* both unmasked names are replaced.
GenerateWebGLProtector(w) ==
  LET v == w["gpu_vendor"]
      r == w["gpu_renderer"]
  IN IF v = "" /\ r = ""
     THEN Assign("webglExtensions", {"WEBGL_debug_renderer"})
     ELSE Assign("unmaskedVendor", v) \o Assign("unmaskedRenderer", r)
          \o When(v # "", Assign("webglVendor", v))
          \o When(r # "", Assign("webglRenderer", r))
          \o Assign("webglExtensions", {"debug"})

GenerateAudioProtector(seed) ==
  Assign("getFloatFrequencyData", GeneratePRNGFunction(seed))
  \o Assign("getByteFrequencyData", GeneratePRNGFunction(seed))
  \o Assign("getChannelData", GeneratePRNGFunction(seed))

GenerateFontProtector(seed) ==
  Assign("queryLocalFonts", "common fonts")
  \o Assign("measureText", GeneratePRNGFunction(seed))

GenerateWebRTCProtector ==
  Assign("RTCPeerConnection", "no srflx candidates")
  \o FinalUncaught("mediaDevices", "anonymous devices")

GenerateWebdriverRemover ==
  Define("webdriver", "undefined") \o Define("plugins", "PDF viewers")
  \o Define("languages", "en-US")

GenerateHardwareConcurrencyProtector(n) == When(n > 0, Define("hardwareConcurrency", n))

GenerateScreenProtector(width, height) ==
  When(width > 0 /\ height > 0,
       Define("screen", <<width, height>>) \o Define("colorDepth", 24))

\* The offset table: minutes to add to local time for UTC, one number per zone.
TableOffset(tz) ==
  CASE tz = "Pacific/Honolulu"                           -> 600
    [] tz = "America/Anchorage"                          -> 540
    [] tz = "America/Los_Angeles"                        -> 480
    [] tz = "America/Denver"                             -> 420
    [] tz \in {"America/Chicago", "Canada/Central"}      -> 360
    [] tz \in {"America/New_York", "Canada/Eastern"}     -> 300
    [] tz \in {"Europe/London", "Europe/Dublin", "UTC", "GMT"} -> 0
    [] tz \in {"Europe/Paris", "Europe/Berlin"}          -> -60
    [] tz \in {"Europe/Moscow", "Brazil/East"}           -> -180
    [] tz = "Asia/Dubai"                                 -> -240
    [] tz = "Asia/Kolkata"                               -> -330
    [] tz = "Asia/Jakarta"                               -> -420
    [] tz \in {"Asia/Shanghai", "Asia/Hong_Kong", "Asia/Singapore"} -> -480
    [] tz \in {"Asia/Tokyo", "Asia/Seoul"}               -> -540
    [] tz \in {"Australia/Sydney", "Australia/Melbourne"} -> -660
    [] tz = "Pacific/Auckland"                           -> -720

\* Of its zones, those with one offset from UTC all year, east positive, as the
\* time zone database has it.
UtcOffset ==
  [tz \in {"Pacific/Honolulu", "Brazil/East", "UTC", "GMT", "Europe/Moscow", "Asia/Dubai",
           "Asia/Kolkata", "Asia/Jakarta", "Asia/Shanghai", "Asia/Hong_Kong",
           "Asia/Singapore", "Asia/Tokyo", "Asia/Seoul"} |->
     CASE tz = "Pacific/Honolulu"             -> -10 * 60
       [] tz = "Brazil/East"                  -> -3 * 60
       [] tz \in {"UTC", "GMT"}               -> 0
       [] tz = "Europe/Moscow"                -> 3 * 60
       [] tz = "Asia/Dubai"                   -> 4 * 60
       [] tz = "Asia/Kolkata"                 -> 5 * 60 + 30
       [] tz = "Asia/Jakarta"                 -> 7 * 60
       [] tz \in {"Asia/Tokyo", "Asia/Seoul"} -> 9 * 60
       [] OTHER                               -> 8 * 60]

\* The zones of the table; in the others a page sees the native offset.
OffsetZones ==
  DOMAIN UtcOffset \cup
  {"America/New_York", "America/Chicago", "America/Denver", "America/Los_Angeles",
   "America/Anchorage", "Europe/London", "Europe/Paris", "Europe/Berlin", "Europe/Dublin",
   "Australia/Sydney", "Australia/Melbourne", "Pacific/Auckland", "Canada/Eastern",
   "Canada/Central"}

\* An explicit timeZone option is replaced, the static resolvedOptions answers
\* with the zone, and getTimezoneOffset with the table's entry for it.
GenerateTimezoneProtector(tz) ==
  LET zone == Literal(EscapeQuotes(tz))
  IN When(tz # "",
          Define("DateTimeFormat", zone) \o Define("resolvedOptions", zone)
          \o When(zone \in OffsetZones, Define("timezoneOffset", TableOffset(zone))))

GeneratePlatformProtector(p) == When(p # "", Define("platform", Literal(JsPlatform(p))))

\* matchMedia answers two queries; "no-preference" is neither.
GenerateColorSchemeProtector(s) ==
  When(s # "", Define("prefersDark", s = "dark") \o Define("prefersLight", s = "light"))

\* Which interfaces are hidden matters to no property.
GenerateFeatureConsistencyProtector(p) ==
  When(p \in {"windows", "macos", "linux"}, Define("hiddenInterfaces", p))

\* The prefixes of every vendor are blocked, the configured one's included.
GenerateWebGLExtensionFilter(vendor) ==
  When(vendor # "", Define("webglExtensions", {"vendor prefixes", "debug"}))

GeneratePerformanceProtector ==
  Define("performance.now", "rounded") \o Define("performance.memory", "undefined")

\* A place made up from the zone; no property tells one from another.
GenerateGeolocationProtector == Define("geolocation", "a place")

GenerateBatteryProtector == Define("getBattery", "full")

GenerateNetworkInfoProtector == Define("connection", "4g")

GenerateProtectionScript(w) ==
  LET seed == w["fingerprint_seed"]
  IN When(seed # 0,
       GenerateCanvasProtector(seed) \o GenerateWebGLProtector(w)
       \o GenerateAudioProtector(seed) \o GenerateFontProtector(seed)
       \o GenerateWebRTCProtector \o GenerateWebdriverRemover
       \o GenerateHardwareConcurrencyProtector(w["hardware_concurrency"])
       \o GenerateScreenProtector(w["screen_width"], w["screen_height"])
       \o GenerateTimezoneProtector(w["timezone"])
       \o GeneratePlatformProtector(w["platform"])
       \o GenerateColorSchemeProtector(w["color_scheme"])
       \o GenerateFeatureConsistencyProtector(w["platform"])
       \o GenerateWebGLExtensionFilter(w["gpu_vendor"])
       \o GeneratePerformanceProtector
       \o When(w["timezone"] # "", GenerateGeolocationProtector)
       \o GenerateBatteryProtector \o GenerateNetworkInfoProtector)

\* Each text that is put into the script unescaped, or half escaped, reads as
\* the content of a literal.
ScriptParses(w) ==
  /\ Literal(JsPlatform(w["platform"])) # NoLiteral
  /\ w["fingerprint_seed"] # 0 /\ w["timezone"] # "" =>
       Literal(EscapeQuotes(w["timezone"])) # NoLiteral

\* The script without the humanize engine's part, which is not in the
\* repository.  It is one source: with a syntax error none of it runs.
GenerateInjectionScript(w) ==
  When(ScriptParses(w),
       GenerateNavigatorOverrides(w) \o GenerateScreenOverrides(w)
       \o GenerateProtectionScript(w))

-----------------------------------------------------------------------------
(***************************************************************************)
(* The commands.                                                           *)
(***************************************************************************)

MakeCommand(method, params) == <<[method |-> method, params |-> params]>>

MakeScreenOverride(width, height) == MakeCommand("metrics", <<width, height>>)
MakeTimezoneOverride(tz) == MakeCommand("timezone", tz)
MakeDarkModeOverride(enabled) == MakeCommand("darkMode", enabled)
MakeScriptInjection(source) == MakeCommand("script", source)

\* The colour scheme decides on auto dark mode only when it is one of two.
GenerateCDPCommands(w) ==
  When(BothPositive(w), MakeScreenOverride(w["screen_width"], w["screen_height"]))
  \o When(w["timezone"] # "", MakeTimezoneOverride(w["timezone"]))
  \o When(w["color_scheme"] \in {"dark", "light"},
          MakeDarkModeOverride(w["color_scheme"] = "dark"))
  \o MakeScriptInjection(GenerateInjectionScript(w))

\* The batch of Apply with Page.enable behind the commands.
CommandBatchEnableLast(w) == GenerateCDPCommands(w) \o MakeCommand("enable", <<>>)

\* The batch of Apply: Page.enable in front, ids from 0.
CommandBatch(w) == MakeCommand("enable", <<>>) \o GenerateCDPCommands(w)

-----------------------------------------------------------------------------
(***************************************************************************)
(* The document.                                                           *)
(***************************************************************************)

\* Statement i of a script fails: what it defines was made final before.
Fails(script, i) ==
  \E j \in 1 .. i - 1 : script[j].prop = script[i].prop /\ script[j].final

\* The statements that take effect: a failure nobody catches ends the script.
Effective(script) ==
  {i \in 1 .. Len(script) :
     /\ ~Fails(script, i)
     /\ \A j \in 1 .. i - 1 : Fails(script, j) => script[j].caught}

Definitions(script, p) == {i \in Effective(script) : script[i].prop = p}

\* The last definition of a property.
LastDefinition(script, p) ==
  CHOOSE i \in Definitions(script, p) : \A j \in Definitions(script, p) : j <= i

\* What a new document finds defined after the script ran.
Evaluate(script) ==
  [p \in {script[i].prop : i \in Effective(script)} |->
     script[LastDefinition(script, p)].value]
=============================================================================
