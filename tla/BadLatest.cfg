\* A thread that two processes write.
SPECIFICATION MCSpec
CONSTANTS
    Graph <- Diamond
    Names <- DiamondNames
    MaxFaults = 2
    Clients = {c1, c2}
    Sockets = {s1, s2}
    AgentNames <- MCAgentNames
    Paths <- MCPaths
    Definitions <- MCDefinitions
    Reloads <- MCReloads
    Bodies <- MCRequests
    AppGraph <- MCAppGraph
    AppId <- MCAppId
    ControlBudgets <- MCControlBudgets
    Callers = {c1, c2}
    Agents = {"a"}
    Ticker = Ticker
    Failures = 2
    Budgets <- MCBudgets
    MaxRestarts = 1
    Served = {"a", "b"}
    IPs = {"x", "y"}
    Rules <- MCRules
    Plans <- MCPlans
    Period = 2
    MaxKeys = 2
    Configs <- MCConfigs
    RequestSet <- RoutedRequests
    Management <- MCManagement
    Regexes <- MCRegexes
    Directories <- MCDirectories
    Shells = {c1, c2}
    AgentIds <- MCAgentIds
    NotNames = {"../x"}
    Projects <- MCProjects
    None = None
CHECK_DEADLOCK FALSE
PROPERTY RestartsFromMostRecent
