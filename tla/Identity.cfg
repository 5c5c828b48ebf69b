\* One process changes the identity files while another loads.
CONSTANTS
    Writer = {w}
    Reader = {r}
    Pass = {p1, p2}
    Plain = Plain
    Absent = Absent
    MaxKeys = 2
    MaxFails = 1
    MaxKills = 1
SPECIFICATION Spec
INVARIANTS
    VaultKeyOnDisk
    SuccessLeavesOneForm
PROPERTY LoadsVaultKey
