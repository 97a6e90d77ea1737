CONSTANTS
    Requests = 5
    Concurrency = 2
    Codes = {200, 404, 422, 500}
    CEPs = {"known", "unknown", "invalid"}
    NotFoundForms = {"erroBool", "erroString"}
    UpstreamErrors = {"badStatus"}
SPECIFICATION LSpec
INVARIANTS
    LTypeOK
    ReportAccountsForEveryRequest
    ReportStatusesExplained
