------------------------------- MODULE Endpoints -------------------------------
(***************************************************************************)
(* The endpoints of the server as their controllers declare them: verb and *)
(* path (":" stands for a parameter), the permission @RequirePermissions   *)
(* demands, whether @Idempotent() is on it, and the handler.  A permission *)
(* is <<action, resource>>; the endpoints of a controller are in the order *)
(* of their declaration, in which the router tries them.                   *)
(***************************************************************************)
EXTENDS Sequences

Crud(resource) == {"create", "read", "update", "delete"} \X {resource}

\* MUTANT of VENDOR_BILLS: nobody can be given the permission to post one.
VENDOR_BILLSWithoutPost == {"create", "read"} \X {"vendor_bill"}
VENDOR_BILLS == {"create", "read", "post"} \X {"vendor_bill"}

PERMISSIONS ==
  UNION {Crud(r) : r \in {"role", "user", "tenant", "account", "product", "partner"}}
  \cup {"create", "read", "approve"} \X {"journal"}
  \cup {"create", "read", "update"} \X {"period", "location", "employee", "contract"}
  \cup {"create", "read", "update", "delete", "adjust", "transfer"} \X {"stock"}
  \cup {"create", "read", "update", "cancel"} \X {"sales_order"}
  \cup {"create", "read", "post"} \X {"invoice"} \cup VENDOR_BILLS
  \cup {"create", "read", "confirm"} \X {"purchase_order"}
  \cup {"create", "read"} \X {"translation"}
  \cup {<<"read", "compliance_report">>, <<"sync", "pos">>}

\* No guard at all; JwtAuthGuard alone.
Nobody == <<"nothing", "of anybody">>
AnyUser == <<"a token", "of any user">>

Each(verb, path, demand, handler) ==
  [verb |-> verb, path |-> path, demand |-> demand, once |-> FALSE, handler |-> handler]
\* With @Idempotent().
Once(verb, path, demand, handler) ==
  [verb |-> verb, path |-> path, demand |-> demand, once |-> TRUE, handler |-> handler]

--------------------------------------------------------------------------------

\* UserController, TenantController and RolesController.
UserRoutes == <<
  Each("POST", <<"users">>, <<"create", "user">>, "create"),
  Each("GET", <<"users">>, <<"read", "user">>, "findAll"),
  Each("GET", <<"users", ":">>, <<"read", "user">>, "findOne"),
  Each("PUT", <<"users", ":">>, <<"update", "user">>, "update"),
  Each("POST", <<"users", ":", "change-password">>, <<"update", "user">>, "changePassword"),
  Each("DELETE", <<"users", ":">>, <<"delete", "user">>, "remove"),
  Each("POST", <<"users", ":", "roles", ":">>, <<"update", "user">>, "assignRole"),
  Each("DELETE", <<"users", ":", "roles", ":">>, <<"update", "user">>, "removeRole") >>

TenantRoutes == <<
  Each("POST", <<"tenants">>, <<"create", "tenant">>, "create"),
  Each("GET", <<"tenants">>, <<"read", "tenant">>, "findAll"),
  Each("GET", <<"tenants", ":">>, <<"read", "tenant">>, "findOne"),
  Each("PUT", <<"tenants", ":">>, <<"update", "tenant">>, "update"),
  Each("DELETE", <<"tenants", ":">>, <<"delete", "tenant">>, "remove") >>

RoleRoutes == <<
  Each("POST", <<"roles">>, <<"create", "role">>, "create"),
  Each("GET", <<"roles">>, <<"read", "role">>, "findAll"),
  Each("GET", <<"roles", "permissions", "list">>, <<"read", "role">>, "listPermissions"),
  Each("GET", <<"roles", ":">>, <<"read", "role">>, "findOne"),
  Each("PATCH", <<"roles", ":">>, <<"update", "role">>, "update"),
  Each("DELETE", <<"roles", ":">>, <<"delete", "role">>, "remove"),
  Each("POST", <<"roles", ":", "permissions">>, <<"update", "role">>, "assignPermissions") >>

\* AuthController.
AuthRoutes == <<
  Each("POST", <<"auth", "login">>, Nobody, "login"),
  Each("POST", <<"auth", "refresh">>, Nobody, "refresh"),
  Each("POST", <<"auth", "logout">>, Nobody, "logout"),
  Each("POST", <<"auth", "logout-all">>, AnyUser, "logoutAll"),
  Each("GET", <<"auth", "me">>, AnyUser, "me") >>

\* FinanceController.
EntryRoutes == <<
  Once("POST", <<"finance", "journal-entries">>, <<"create", "journal">>, "create"),
  Each("POST", <<"finance", "journal-entries", ":", "post">>, <<"approve", "journal">>, "postEntry") >>

\* MUTANT of PeriodRoutes: the current period is declared after those of an id.
PeriodRoutesByIdFirst == <<
  Once("POST", <<"finance", "periods">>, <<"create", "period">>, "createPeriod"),
  Each("GET", <<"finance", "periods">>, <<"read", "period">>, "findAllPeriods"),
  Each("GET", <<"finance", "periods", ":">>, <<"read", "period">>, "findPeriod"),
  Each("GET", <<"finance", "periods", "current">>, <<"read", "period">>, "getCurrentPeriod"),
  Each("PUT", <<"finance", "periods", ":">>, <<"update", "period">>, "updatePeriod"),
  Each("POST", <<"finance", "periods", ":", "close">>, <<"update", "period">>, "closePeriod"),
  Each("POST", <<"finance", "periods", ":", "reopen">>, <<"update", "period">>, "reopenPeriod") >>
PeriodRoutes == <<
  Once("POST", <<"finance", "periods">>, <<"create", "period">>, "createPeriod"),
  Each("GET", <<"finance", "periods">>, <<"read", "period">>, "findAllPeriods"),
  Each("GET", <<"finance", "periods", "current">>, <<"read", "period">>, "getCurrentPeriod"),
  Each("GET", <<"finance", "periods", ":">>, <<"read", "period">>, "findPeriod"),
  Each("PUT", <<"finance", "periods", ":">>, <<"update", "period">>, "updatePeriod"),
  Each("POST", <<"finance", "periods", ":", "close">>, <<"update", "period">>, "closePeriod"),
  Each("POST", <<"finance", "periods", ":", "reopen">>, <<"update", "period">>, "reopenPeriod") >>

AccountRoutes == <<
  Each("POST", <<"finance", "accounts">>, <<"create", "account">>, "createAccount"),
  Each("GET", <<"finance", "accounts">>, <<"read", "account">>, "findAllAccounts"),
  Each("GET", <<"finance", "accounts", ":">>, <<"read", "account">>, "findAccount"),
  Each("PUT", <<"finance", "accounts", ":">>, <<"update", "account">>, "updateAccount"),
  Each("GET", <<"finance", "reports", "trial-balance">>, <<"read", "account">>, "getTrialBalance"),
  Each("GET", <<"finance", "reports", "general-ledger">>, <<"read", "account">>, "getGeneralLedger") >>

TermRoutes == <<
  Each("GET", <<"finance", "config", "payment-terms">>, <<"read", "account">>, "getPaymentTerms"),
  Once("POST", <<"finance", "payment-terms">>, <<"create", "account">>, "createPaymentTerm"),
  Each("PUT", <<"finance", "payment-terms", ":">>, <<"update", "account">>, "updatePaymentTerm"),
  Each("DELETE", <<"finance", "payment-terms", ":">>, <<"delete", "account">>, "deletePaymentTerm") >>

\* InventoryController.
ProductRoutes == <<
  Once("POST", <<"inventory", "products">>, <<"create", "product">>, "createProduct"),
  Each("GET", <<"inventory", "products">>, <<"read", "product">>, "findAllProducts"),
  Each("GET", <<"inventory", "products", ":">>, <<"read", "product">>, "findProduct"),
  Each("PUT", <<"inventory", "products", ":">>, <<"update", "product">>, "updateProduct") >>

LocationRoutes == <<
  Each("POST", <<"inventory", "locations">>, <<"create", "location">>, "createLocation"),
  Each("GET", <<"inventory", "locations">>, <<"read", "location">>, "findAllLocations"),
  Each("GET", <<"inventory", "locations", ":">>, <<"read", "location">>, "findLocation"),
  Each("PUT", <<"inventory", "locations", ":">>, <<"update", "location">>, "updateLocation") >>

StockRoutes == <<
  Each("GET", <<"inventory", "stock", "product", ":">>, <<"read", "stock">>, "getStockByProduct"),
  Each("GET", <<"inventory", "stock", "location", ":">>, <<"read", "stock">>, "getStockByLocation"),
  Each("GET", <<"inventory", "stock", ":", ":">>, <<"read", "stock">>, "checkStock"),
  Each("POST", <<"inventory", "stock", "transfer">>, <<"transfer", "stock">>, "transferStock"),
  Each("POST", <<"inventory", "stock", "adjust">>, <<"adjust", "stock">>, "adjustStock"),
  Each("GET", <<"inventory", "reports", "stock-ledger">>, <<"read", "stock">>, "getStockLedger"),
  Each("GET", <<"inventory", "reports", "valuation">>, <<"read", "stock">>, "getStockValuation") >>

ReceiptRoutes == <<
  Once("POST", <<"inventory", "receipts">>, <<"create", "stock">>, "createReceipt"),
  Each("GET", <<"inventory", "receipts">>, <<"read", "stock">>, "getReceipts"),
  Each("GET", <<"inventory", "receipts", ":">>, <<"read", "stock">>, "getReceipt"),
  Each("PUT", <<"inventory", "receipts", ":">>, <<"update", "stock">>, "updateReceipt"),
  Each("POST", <<"inventory", "receipts", ":", "complete">>, <<"update", "stock">>, "completeReceipt"),
  Each("POST", <<"inventory", "receipts", ":", "delete">>, <<"delete", "stock">>, "deleteReceipt") >>

IssueRoutes == <<
  Once("POST", <<"inventory", "issues">>, <<"create", "stock">>, "createIssue"),
  Each("GET", <<"inventory", "issues">>, <<"read", "stock">>, "getIssues"),
  Each("GET", <<"inventory", "issues", ":">>, <<"read", "stock">>, "getIssue"),
  Each("PUT", <<"inventory", "issues", ":">>, <<"update", "stock">>, "updateIssue"),
  Each("POST", <<"inventory", "issues", ":", "complete">>, <<"update", "stock">>, "completeIssue"),
  Each("POST", <<"inventory", "issues", ":", "delete">>, <<"delete", "stock">>, "deleteIssue") >>

\* ProductController.
CategoryRoutes == <<
  Each("POST", <<"products", "categories">>, <<"create", "product">>, "createCategory"),
  Each("GET", <<"products", "categories">>, <<"read", "product">>, "findAllCategories"),
  Each("GET", <<"products", "categories", "tree">>, <<"read", "product">>, "getCategoryTree"),
  Each("GET", <<"products", "categories", ":">>, <<"read", "product">>, "findCategory"),
  Each("PUT", <<"products", "categories", ":">>, <<"update", "product">>, "updateCategory"),
  Each("DELETE", <<"products", "categories", ":">>, <<"delete", "product">>, "removeCategory") >>

AttributeRoutes == <<
  Each("POST", <<"products", "attributes">>, <<"create", "product">>, "createAttribute"),
  Each("GET", <<"products", "attributes">>, <<"read", "product">>, "findAllAttributes"),
  Each("GET", <<"products", "attributes", "variant">>, <<"read", "product">>, "getVariantAttributes"),
  Each("GET", <<"products", "attributes", "filterable">>, <<"read", "product">>, "getFilterableAttributes"),
  Each("GET", <<"products", "attributes", ":">>, <<"read", "product">>, "findAttribute"),
  Each("PUT", <<"products", "attributes", ":">>, <<"update", "product">>, "updateAttribute"),
  Each("DELETE", <<"products", "attributes", ":">>, <<"delete", "product">>, "removeAttribute") >>

VariantRoutes == <<
  Each("POST", <<"products", "variants">>, <<"create", "product">>, "createVariant"),
  Each("GET", <<"products", ":", "variants">>, <<"read", "product">>, "findProductVariants"),
  Each("GET", <<"products", "variants", ":">>, <<"read", "product">>, "findVariant"),
  Each("PUT", <<"products", "variants", ":">>, <<"update", "product">>, "updateVariant"),
  Each("DELETE", <<"products", "variants", ":">>, <<"delete", "product">>, "removeVariant"),
  Each("POST", <<"products", ":", "variants", "generate">>, <<"create", "product">>, "generateVariants") >>

\* SalesController and PartnerController.
SalesOrderRoutes == <<
  Once("POST", <<"sales", "orders">>, <<"create", "sales_order">>, "create"),
  Each("GET", <<"sales", "orders">>, <<"read", "sales_order">>, "findAllOrders"),
  Each("GET", <<"sales", "orders", ":">>, <<"read", "sales_order">>, "findOrder"),
  Each("PUT", <<"sales", "orders", ":">>, <<"update", "sales_order">>, "updateOrder"),
  Each("POST", <<"sales", "orders", ":", "send">>, <<"update", "sales_order">>, "sendQuote"),
  Each("POST", <<"sales", "orders", ":", "confirm">>, <<"update", "sales_order">>, "confirmOrder"),
  Each("POST", <<"sales", "orders", ":", "cancel">>, <<"cancel", "sales_order">>, "cancelOrder"),
  Each("POST", <<"sales", "orders", ":", "invoice">>, <<"create", "invoice">>, "createInvoice") >>

InvoiceRoutes == <<
  Each("GET", <<"sales", "invoices">>, <<"read", "invoice">>, "findAllInvoices"),
  Each("GET", <<"sales", "invoices", ":">>, <<"read", "invoice">>, "getInvoice"),
  Each("POST", <<"sales", "invoices", ":", "post">>, <<"post", "invoice">>, "postInvoice"),
  Each("GET", <<"sales", "reports", "analysis">>, <<"read", "sales_order">>, "getSalesAnalysis"),
  Each("GET", <<"sales", "reports", "ar-aging">>, <<"read", "invoice">>, "getARAgingReport") >>

PartnerRoutes == <<
  Each("POST", <<"partners">>, <<"create", "partner">>, "create"),
  Each("GET", <<"partners">>, <<"read", "partner">>, "findAll"),
  Each("GET", <<"partners", ":">>, <<"read", "partner">>, "findOne"),
  Each("PUT", <<"partners", ":">>, <<"update", "partner">>, "update"),
  Each("DELETE", <<"partners", ":">>, <<"delete", "partner">>, "remove") >>

\* ProcurementController.
PurchaseRoutes == <<
  Once("POST", <<"procurement", "rfq">>, <<"create", "purchase_order">>, "createRFQ"),
  Each("GET", <<"procurement", "orders">>, <<"read", "purchase_order">>, "findAll"),
  Each("GET", <<"procurement", "orders", ":">>, <<"read", "purchase_order">>, "getOne"),
  Each("POST", <<"procurement", "orders", ":", "confirm">>, <<"confirm", "purchase_order">>, "confirmOrder"),
  Each("POST", <<"procurement", "orders", ":", "bill">>, <<"create", "vendor_bill">>, "createBill") >>

BillRoutes == <<
  Each("POST", <<"procurement", "bills", ":", "post">>, <<"post", "vendor_bill">>, "postBill"),
  Each("GET", <<"procurement", "bills", ":">>, <<"read", "vendor_bill">>, "getBill"),
  Each("GET", <<"procurement", "reports", "ap-aging">>, <<"read", "vendor_bill">>, "getAPAgingReport") >>

\* HrmsController.
EmployeeRoutes == <<
  Each("GET", <<"hrms", "employees">>, <<"read", "employee">>, "findEmployees"),
  Each("GET", <<"hrms", "employees", ":">>, <<"read", "employee">>, "findEmployeeById"),
  Each("POST", <<"hrms", "employees">>, <<"create", "employee">>, "createEmployee"),
  Each("PUT", <<"hrms", "employees", ":">>, <<"update", "employee">>, "updateEmployee"),
  Each("DELETE", <<"hrms", "employees", ":">>, <<"update", "employee">>, "removeEmployee") >>

ContractRoutes == <<
  Each("GET", <<"hrms", "contracts">>, <<"read", "contract">>, "findContracts"),
  Each("GET", <<"hrms", "contracts", ":">>, <<"read", "contract">>, "findContractById"),
  Each("POST", <<"hrms", "employees", ":", "contracts">>, <<"create", "contract">>, "addContract"),
  Each("GET", <<"hrms", "employees", ":", "contracts">>, <<"read", "contract">>, "findContractsByEmployeeId"),
  Each("PUT", <<"hrms", "contracts", ":">>, <<"update", "contract">>, "updateContract"),
  Each("DELETE", <<"hrms", "contracts", ":">>, <<"update", "contract">>, "removeContract"),
  Each("POST", <<"hrms", "contracts", ":", "activate">>, <<"update", "contract">>, "activateContract") >>

\* PosController, I18nController, ComplianceController and AppController.
PosRoutes == <<
  Each("POST", <<"pos", "sync">>, <<"sync", "pos">>, "sync") >>

TranslationRoutes == <<
  Each("POST", <<"i18n", "products", "translations">>, <<"create", "translation">>, "addProductTranslation"),
  Each("GET", <<"i18n", "products", ":", "translations">>, <<"read", "translation">>, "getProductTranslation") >>

ComplianceRoutes == <<
  Each("GET", <<"compliance", "einvoice", ":">>, <<"read", "compliance_report">>, "generateEInvoice") >>

AppRoutes == <<
  Each("GET", <<>>, Nobody, "getRoot") >>

\* The controllers in the order in which their modules are found from AppModule.
Routes ==
  AppRoutes \o AuthRoutes \o UserRoutes \o TenantRoutes \o RoleRoutes \o
  EntryRoutes \o PeriodRoutes \o AccountRoutes \o TermRoutes \o
  ProductRoutes \o LocationRoutes \o StockRoutes \o ReceiptRoutes \o IssueRoutes \o
  CategoryRoutes \o AttributeRoutes \o VariantRoutes \o
  SalesOrderRoutes \o InvoiceRoutes \o PartnerRoutes \o PurchaseRoutes \o BillRoutes \o
  EmployeeRoutes \o ContractRoutes \o PosRoutes \o TranslationRoutes \o
  ComplianceRoutes
================================================================================
