SPECIFICATION FairSpec
CONSTANTS
    aws = aws
    byo = byo
    a1 = a1
    a2 = a2
    s1 = s1
    s2 = s2
    s3 = s3
    Pool <- AwsPool
    Name <- OneAws
    Home <- OneAwsHome
    PreJoined <- NoNames
    Provider <- AwsProvider
    Price <- AwsZero
    Available <- AwsZero
    Demand <- Zero
    MaxExports = 0
    Events = {"xid", "unanswered"}
    PolicyPools <- AwsPolicy
    Priority <- AwsTwo
    MaxNodes <- AwsTwo
    MaxHourlyUSD <- AwsTwo
    Target <- FixedOne
PROPERTIES
    JoinedIsRecorded
    XidIsHandled
