SPECIFICATION Spec
CONSTANTS
    New = New
    ProxyRows <- MCProxyRows
    GroupRows <- MCGroupRows
    RuleRows <- MCRuleRows
    ProviderRows <- MCProviderRows
    ProxyTypesUsed = {"ss", "vmess", "trojan"}
    RuleTypesUsed = {"DOMAIN", "IP-CIDR", "MATCH"}
    Available = {"a", "b"}
    MaxInputs = 4
    Nobody = Nobody
    Me = Me
    Users = {Me, User}
    Keys <- MCKeys
    MaxClicks = 3
    MaxUnread = 1
    MaxContent = 2
    Invalid = {2}
    MaxRecords = 3
    MaxWrites = 1
    MaxFaults = 1
    MaxTokens = 2
    MaxNetFaults = 1
PROPERTY SettingsAreSaved
CHECK_DEADLOCK FALSE
