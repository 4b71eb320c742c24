SPECIFICATION Spec
CONSTANTS
  custom = custom
  openai = openai
  proxy = proxy
  api = api
  local = local
  Provider = {custom, openai}
  Upstream = {proxy, api, local}
  Local = {local}
  Default <- MCDefault
  FirstActive = openai
  FirstBase <- MCFirstBase
  Unset = Unset
  Port = {1, 2}
  Setting <- MCSettings
  FirstSetting <- MCFirst
  Pid = {g1, g2, g3}
  g1 = g1
  g2 = g2
  g3 = g3
  None = None
  MaxKills = 1
  MaxEdits = 1
INVARIANTS KeepsUsersUrl FilesFollowRecord GatewaysRecorded UrlNotLost
SYMMETRY MCPidSymmetry
