CONSTANTS
  OpenAI = openai  Anthropic = anthropic  Codex = codex
  Provider = {openai, anthropic, codex}
  x = x  y = y  Profile = {x, y}
  api = api  mirror = mirror  native = native  anth = anth  local = local
  Url <- MCUrl  Owner <- MCOwner
  DefaultUrl = api  NativeUrl = native  ConfiguredUrl = api
  Local = {local}  Gateway = gateway
  completions = completions  google = google
  Family = {completions, google}  Supported = {completions}
  Unset = Unset
  r1 = r1  r2 = r2  Request = {r1, r2}  Sends <- MCSends
  Client = {"codex", "opencode", "openclaw", "unknown", "claude_code"}
  Ask <- MCAsk
  CodexStart <- MCCodexStart  OpenCodeStart <- MCOpenCodeStart
  OpenClawStart <- MCOpenClawStart
  MaxRetries = 1  MaxToken = 3  MaxCommands = 3  MaxSelects = 1  MaxKills = 1
SPECIFICATION FairSpec
INVARIANTS CredentialIsOwn RouteIsUsers SessionKept
PROPERTY RequestsEnd
CHECK_DEADLOCK FALSE
