SPECIFICATION Spec
CONSTANTS
  own = own
  builtin = builtin
  proxy = proxy
  remote = remote
  local = local
  chat = chat
  codex = codex
  Provider = {own, builtin}
  Url = {proxy, remote, local}
  Local = {local}
  Unset = Unset
  Api = {chat, codex}
  Supported = {chat}
  NoApi = NoApi
  None = None
  first = first
  second = second
  Port = {first, second}
  FirstFile <- MCFirstFiles
  MaxKills = 2
  MaxEdits = 2
INVARIANTS GivesBack FilesFollowRecord UrlNotLost
SYMMETRY MCPorts
