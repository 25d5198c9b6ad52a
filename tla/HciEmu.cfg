CONSTANTS
    Type = "bredrle"
    Commands = {"reset", "version", "disconnect", "inquiry", "create", "cancel", "accept", "reject_conn", "scan_on", "sco", "scan_off", "adv_on", "adv_off", "le_scan_on", "le_create"}
    Calls = {"scan_on", "adv_on", "create", "le_create"}
    Sent = {"conn_req", "config_req", "conn_rsp", "conn_pend", "ask", "param_req"}
    Given = 3
    Spoken = 2
    Cap = 1
SPECIFICATION Spec
INVARIANTS TypeOK HostsAgree NoStaleHandle CommandsFlow RefusedOnlyOverlaid
PROPERTY ConnectAnswered
CHECK_DEADLOCK FALSE
