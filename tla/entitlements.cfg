CONSTANTS
    free = free
    team = team
    pro = pro
    Plans = {free, team, pro}
    FreePlans = {free, team}
    DefaultPlan = free
    Limit <- MCLimit
    Payloads <- MCPayloads
    NoPlan = NoPlan
SPECIFICATION Spec
INVARIANTS EntitlementsFollowDeliveries PaidPlanIsPaidFor
