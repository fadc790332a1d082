SPECIFICATION Spec
CONSTANTS
    j1 = j1
    j2 = j2
    web = web
    app = app
    local = local
    cloud = cloud
    policy = policy
    tag = tag
    script = script
    excludes = excludes
    sales = sales
    stock = stock
    vol = vol
    orphan = orphan
    cache = cache
    srv = srv
    home = home
    Blank = Blank
    New = New
    None = None
    Deleted = Deleted
    Jobs = {j1, j2}
    Servers = {web, app}
    Dests = {local, cloud}
    Policies = {policy}
    Tags = {tag}
    Scripts = {script}
    Unseen = {excludes}
    ItemsOf <- MCItemsOf
    OrphansOf <- MCOrphansOf
    BindMountsOf <- MCBindMountsOf
    MaxSaves = 2
    MaxClicks = 5
INVARIANTS TypeOK NoDuplicates ReopenKeepsShown RightJob
PROPERTIES ServerFixed
CHECK_DEADLOCK FALSE
